---------------------------- MODULE Spec2Model ----------------------------
(***************************************************************************)
(* FinCheck: the cross-source verification engine of StatementVerifier.py  *)
(* (text similarity, numeric-token comparison, multi-page balance          *)
(* reconciliation) and the callers that drive it (main.py, LocalPreper.py, *)
(* MachineLearning.py).                                                    *)
(*                                                                         *)
(* Conventions of the model                                                *)
(*  - A JSON value is a tagged record: [t |-> "absent"] is a key missing   *)
(*    from its dict, [t |-> "null"] is None, [t |-> "str", s |-> ..] is a  *)
(*    string float() rejects, [t |-> "numstr", v |-> ..] a string float()  *)
(*    accepts, [t |-> "num", v |-> ..] a JSON number.                      *)
(*  - A decimal literal of the input is counted in hundredths (the JSON    *)
(*    number 1.05 is [t |-> "num", v |-> 105], the default tolerance 0.01  *)
(*    is 1).                                                               *)
(*  - A Python float is an IEEE 754 binary64 value                         *)
(*    [t |-> "float", neg |-> .., hi |-> .., lo |-> ..] of magnitude       *)
(*    (hi * 2^30 + lo) * 2^-59, rounded to 53 significant bits as float(), *)
(*    + and - round (to nearest, ties to even).  The representation holds  *)
(*    zero and the floats of magnitude in [2^-7, 4).                       *)
(*  - A text is a sequence of one-character strings.                       *)
(*  - A ratio is an exact fraction [t |-> "rat", n |-> .., d |-> ..] in    *)
(*    lowest terms; SpecPageOrder, which is about the order of the float   *)
(*    additions, holds the similarities as floats.                         *)
(*  - A label of statement_features is Num(0) or Num(100) (the integers 0  *)
(*    and 1), or None for NULL.                                            *)
(***************************************************************************)
EXTENDS Integers, Sequences, FiniteSets, TLC

VARIABLES
    ai_output,      \* the ai_output argument of StatementVerifier.__init__
    pdf_handler,    \* the pdf_handler argument (None or an object with text_pages)
    pc,             \* position of the caller: "ready", "raised", "gathered" (of a
                    \* caller of extract_numbers: "text", "extracted",
                    \* "reserialized", "reextracted"; of main(): "analysis",
                    \* "exited", "verifier", "saved", "not_saved", "predicted",
                    \* "finished" as well)
    self,           \* the attributes of the StatementVerifier instance
    done,           \* the analyses that have returned normally on this instance
    exc,            \* the exception the last call raised ("none" if it returned)
    record,         \* the dictionary returned by LocalPreper.gather_data
    text,           \* the text argument of the next call of extract_numbers (of
                    \* a page comparison: the two texts of the page)
    calls,          \* the calls of extract_numbers (the page comparisons) so
                    \* far: argument and result (of main(): the calls of
                    \* update_label_in_db)
    db              \* the database file of main(): whether it exists and the
                    \* rows of statement_features (None where no database is
                    \* opened)

vars == <<ai_output, pdf_handler, pc, self, done, exc, record, text, calls, db>>

----------------------------------------------------------------------------
(* Bounds of the model *)

MaxAiPages == 2

MaxPdfPages == 1

MaxTextLen == 5

MaxBalancePages == 3

MaxTokens == 2

MaxRewrites == 2

MaxOrderPages == 3

(* Program constants *)

Tolerance == 1

----------------------------------------------------------------------------
(* JSON values *)

Absent == [t |-> "absent"]

Null == [t |-> "null"]

NoneV == [t |-> "None"]

Str(s) == [t |-> "str", s |-> s]

Unknown == Str("unknown")

NumStr(v) == [t |-> "numstr", v |-> v]

Num(v) == [t |-> "num", v |-> v]

List(xs) == [t |-> "list", xs |-> xs]

Text(cs) == [t |-> "text", cs |-> cs]

Rat(n, d) == [t |-> "rat", n |-> n, d |-> d]

\* dict.get(key, default): the stored value, or the default when the key is missing
Get(value, default) == IF value = Absent THEN default ELSE value

Abs(x) == IF x < 0 THEN -x ELSE x

Max(x, y) == IF x >= y THEN x ELSE y

Min(x, y) == IF x <= y THEN x ELSE y

----------------------------------------------------------------------------
(* Python floats (IEEE 754 binary64) *)

\* The magnitude of a float is hi * LimbBase + lo units of 2^-59
LimbBase == 2^30

Flt(neg, hi, lo) == [t |-> "float", neg |-> neg, hi |-> hi, lo |-> lo]

\* 0.0
FloatZero == Flt(FALSE, 0, 0)

\* int.bit_length()
RECURSIVE BitLength(_)
BitLength(n) == IF n = 0 THEN 0 ELSE 1 + BitLength(n \div 2)

\* The spacing, in units of 2^-59, of the floats whose magnitude has this
\* many bits: a float has 53 significant bits
SpacingOfBits(bits) == IF bits > 53 THEN 2^(bits - 53) ELSE 1

\* The spacing of the floats at the magnitude of m
UlpUnits(m) ==
    SpacingOfBits(IF m.hi > 0 THEN 30 + BitLength(m.hi) ELSE BitLength(m.lo))

\* The carry of the low limb into the high one
Normalize(hi, lo) == [hi |-> hi + lo \div LimbBase, lo |-> lo % LimbBase]

\* The multiple of the spacing u nearest to the magnitude m + rem/den units
\* (0 <= rem < den), ties to the even multiple
RoundToSpacing(m, rem, den, u) ==
    LET r == m.lo % u
        twice == 2 * ((m.lo % u) * den + rem)
        odd == ((m.lo - (m.lo % u)) \div u) % 2 = 1
    IN  Normalize(m.hi, IF twice > u * den \/ (twice = u * den /\ odd)
                        THEN m.lo - r + u
                        ELSE m.lo - r)

\* The float nearest to the magnitude m + rem/den units (0 <= rem < den),
\* ties to the even significand
RoundNearestEven(m, rem, den) == RoundToSpacing(m, rem, den, UlpUnits(m))

MagLess(a, b) == a.hi < b.hi \/ (a.hi = b.hi /\ a.lo < b.lo)

MagAdd(a, b) ==
    [hi |-> a.hi + b.hi + (a.lo + b.lo) \div LimbBase, lo |-> (a.lo + b.lo) % LimbBase]

\* a - b for ~MagLess(a, b)
MagSub(a, b) ==
    IF a.lo >= b.lo THEN [hi |-> a.hi - b.hi, lo |-> a.lo - b.lo]
    ELSE [hi |-> a.hi - b.hi - 1, lo |-> a.lo + LimbBase - b.lo]

Signed(neg, m) == Flt(neg, m.hi, m.lo)

\* The float nearest to n / d (0 <= n < 4 * d, d < 2^11), by long division
\* of the fraction into 59 binary places
FractionToFloat(n, d) ==
    LET t1 == (n % d) * 2^20
        t2 == (t1 % d) * 2^20
        t3 == (t2 % d) * 2^19
        c2 == t2 \div d
    IN  RoundNearestEven(
            [hi |-> (n \div d) * 2^29 + (t1 \div d) * 2^9 + c2 \div 2^11,
             lo |-> (c2 % 2^11) * 2^19 + t3 \div d],
            t3 % d, d)

\* float("1.05"), and the float json.loads makes of the literal 1.05: the
\* float nearest to h hundredths (0 <= h < 400)
DecimalToFloat(h) == FractionToFloat(h, 100)

\* The sign of a + b: that of the operand of the larger magnitude, and
\* positive when the operands cancel
SumIsNegative(a, b) ==
    IF a.neg = b.neg THEN a.neg
    ELSE IF MagLess(a, b) THEN b.neg
    ELSE IF MagLess(b, a) THEN a.neg
    ELSE FALSE

\* The exact magnitude of a + b
SumMagnitude(a, b) ==
    IF a.neg = b.neg THEN MagAdd(a, b)
    ELSE IF MagLess(a, b) THEN MagSub(b, a)
    ELSE MagSub(a, b)

\* a + b
FloatAdd(a, b) ==
    Signed(SumIsNegative(a, b), RoundNearestEven(SumMagnitude(a, b), 0, 1))

\* a / k for a float a >= 0 and an int k (1 <= k < 2^15), the quotient being
\* 0 or at least 2^-7
FloatDivInt(a, k) ==
    LET t == (a.hi % k) * 2^15 + a.lo \div 2^15
        t0 == (t % k) * 2^15 + (a.lo % 2^15)
    IN  Signed(a.neg,
               RoundNearestEven([hi |-> a.hi \div k, lo |-> (t \div k) * 2^15 + t0 \div k],
                                t0 % k, k))

\* sum(values): the values added from left to right
RECURSIVE FloatSum(_)
FloatSum(values) ==
    IF values = <<>> THEN FloatZero
    ELSE FloatAdd(FloatSum(SubSeq(values, 1, Len(values) - 1)), values[Len(values)])

\* a - b
FloatSub(a, b) ==
    FloatAdd(a, IF b = FloatZero THEN b ELSE [b EXCEPT !.neg = ~b.neg])

\* abs(a)
FloatAbs(a) == [a EXCEPT !.neg = FALSE]

\* a <= b
FloatLeq(a, b) ==
    IF a.neg # b.neg THEN a.neg
    ELSE IF a.neg THEN ~MagLess(a, b)
    ELSE ~MagLess(b, a)

\* float(x): numbers and numeric strings convert, other strings raise
\* ValueError, None (and any other non-string) raises TypeError
Float(x) ==
    IF x.t \in {"num", "numstr"}
    THEN [ok |-> TRUE, err |-> "none",
          v |-> IF x.v = 0 THEN FloatZero
                ELSE Signed(x.v < 0, DecimalToFloat(Abs(x.v)))]
    ELSE IF x.t = "str" THEN [ok |-> FALSE, v |-> FloatZero, err |-> "ValueError"]
    ELSE [ok |-> FALSE, v |-> FloatZero, err |-> "TypeError"]

----------------------------------------------------------------------------
(* verify_opening_closing_balance_consistency *)

\* Lines 333-341: the sum of the amounts of a transaction list.  An amount
\* float() rejects with ValueError adds 0; a TypeError is not caught.
RECURSIVE TxSum(_)
TxSum(txs) ==
    IF txs = <<>> THEN [sum |-> FloatZero, err |-> "none"]
    ELSE LET rest == TxSum(SubSeq(txs, 1, Len(txs) - 1))
             f == Float(Get(txs[Len(txs)].amount, NumStr(0)))
         IN  IF rest.err # "none" THEN rest
             ELSE IF f.ok THEN [sum |-> FloatAdd(rest.sum, f.v), err |-> "none"]
             ELSE IF f.err = "ValueError" THEN rest
             ELSE [sum |-> FloatZero, err |-> f.err]

\* Lines 282-300: the fields reset at entry and the locals before the loop
BalanceInit ==
    [previous_closing |-> NoneV, any_mismatch |-> FALSE, total_transactions |-> 0,
     opening_balance |-> NoneV, closing_balance |-> NoneV,
     transaction_count |-> Num(0), computed_vs_stated_diff |-> FloatZero,
     err |-> "none", kind |-> "init",
     ob_val |-> FloatZero, expected_closing |-> FloatZero, diff_value |-> FloatZero,
     stated_close |-> NoneV]

\* Line 377: the final fields are stored by the iteration whose index is the
\* last index of the list
IsStoringIteration(i, n) == i = n

\* SkipPage forgetting the closing carried so far
SkipPage_ForgetsPreviousClosing(st) ==
    [st EXCEPT !.kind = "skip", !.previous_closing = NoneV]

\* Lines 313, 324: `continue`
SkipPage(st) == [st EXCEPT !.kind = "skip"]

\* CarriesForward taking previous_closing whenever there is one
CarriesForward_WheneverPreviousClosing(opening_raw, previous_closing) ==
    previous_closing # NoneV

\* Line 316: the opening is taken from the previous processed page
CarriesForward(opening_raw, previous_closing) ==
    opening_raw = Unknown /\ previous_closing # NoneV

\* Lines 302-383: one iteration of the loop, on the page at (1-based) index i
\* of a list of n pages, with the tolerance given in hundredths.  kind
\* records what happened to the page.
BalanceStep(st, page, i, n, tolerance) ==
    LET opening_raw == Get(page.opening_balance, Unknown)
        closing_raw == Get(page.closing_balance, Unknown)
        transactions == Get(page.transactions, Unknown)
        carry == CarriesForward(opening_raw, st.previous_closing)
        fo == Float(opening_raw)
        fc == Float(closing_raw)
        skipped == SkipPage(st)
        raised(e) == [st EXCEPT !.kind = "raised", !.err = e]
    IN  IF st.err # "none" THEN st
        ELSE IF transactions = Unknown \/ transactions.t # "list" THEN skipped
        ELSE IF ~carry /\ ~fo.ok
        THEN IF fo.err = "ValueError" THEN skipped ELSE raised(fo.err)
        ELSE IF ~fc.ok /\ fc.err # "ValueError" THEN raised(fc.err)
        ELSE
        LET ob_val == IF carry THEN st.previous_closing ELSE fo.v
            stated_close == IF fc.ok THEN fc.v ELSE NoneV
            tx == TxSum(transactions.xs)
            expected_closing == FloatAdd(ob_val, tx.sum)
            diff_value == IF stated_close # NoneV
                          THEN FloatAbs(FloatSub(expected_closing, stated_close))
                          ELSE FloatZero
            mismatch == stated_close # NoneV
                        /\ ~FloatLeq(diff_value, Float(Num(tolerance)).v)
            last == IsStoringIteration(i, n)
        IN  IF tx.err # "none" THEN raised(tx.err)
            ELSE [previous_closing |-> expected_closing,
                  any_mismatch |-> st.any_mismatch \/ mismatch,
                  total_transactions |-> st.total_transactions + Len(transactions.xs),
                  opening_balance |-> IF last THEN ob_val ELSE st.opening_balance,
                  closing_balance |->
                      IF last THEN (IF stated_close # NoneV THEN stated_close
                                    ELSE expected_closing)
                      ELSE st.closing_balance,
                  transaction_count |->
                      IF last THEN Num(st.total_transactions + Len(transactions.xs))
                      ELSE st.transaction_count,
                  computed_vs_stated_diff |->
                      IF last THEN diff_value ELSE st.computed_vs_stated_diff,
                  err |-> "none",
                  kind |-> IF carry THEN "carry_forward" ELSE "explicit",
                  ob_val |-> ob_val, expected_closing |-> expected_closing,
                  diff_value |-> diff_value, stated_close |-> stated_close]

\* BalanceTrace handing the stated closing of a page, when it has one, to
\* the next iteration as previous_closing
RECURSIVE BalanceTrace_CarriesStatedClosing(_, _, _)
BalanceTrace_CarriesStatedClosing(pages, k, tolerance) ==
    IF k = 0 THEN <<>>
    ELSE LET before == BalanceTrace_CarriesStatedClosing(pages, k - 1, tolerance)
             st == IF k = 1 THEN BalanceInit
                   ELSE [before[k - 1] EXCEPT !.previous_closing =
                            IF @ # NoneV /\ before[k - 1].stated_close # NoneV
                            THEN before[k - 1].stated_close ELSE @]
         IN  Append(before, BalanceStep(st, pages[k], k, Len(pages), tolerance))

\* Lines 302-383: the loop states after each of the first k iterations
RECURSIVE BalanceTrace(_, _, _)
BalanceTrace(pages, k, tolerance) ==
    IF k = 0 THEN <<>>
    ELSE LET before == BalanceTrace(pages, k - 1, tolerance)
             st == IF k = 1 THEN BalanceInit ELSE before[k - 1]
         IN  Append(before, BalanceStep(st, pages[k], k, Len(pages), tolerance))

\* The loop state when the loop over the list ends (or is left by an exception)
BalanceFinal(pages, tolerance) ==
    IF pages = <<>> THEN BalanceInit
    ELSE BalanceTrace(pages, Len(pages), tolerance)[Len(pages)]

----------------------------------------------------------------------------
(* Characters and texts *)

UpperChars == <<"A","B","C","D","E","F","G","H","I","J","K","L","M",
                "N","O","P","Q","R","S","T","U","V","W","X","Y","Z">>

LowerChars == <<"a","b","c","d","e","f","g","h","i","j","k","l","m",
                "n","o","p","q","r","s","t","u","v","w","x","y","z">>

Digits == {"0","1","2","3","4","5","6","7","8","9"}

\* \s of the regular expressions
IsSpace(c) == c \in {" ", "\n", "\t"}

\* \w of the regular expressions
WordChars ==
    Digits \cup {"_"} \cup {LowerChars[i] : i \in 1..Len(LowerChars)}
           \cup {UpperChars[i] : i \in 1..Len(UpperChars)}

IsWord(c) == c \in WordChars

\* str.lower() on one character
LowerChar(c) ==
    IF \E i \in 1..Len(UpperChars) : c = UpperChars[i]
    THEN LowerChars[CHOOSE i \in 1..Len(UpperChars) : c = UpperChars[i]]
    ELSE c

\* Line 21: re.sub(r'[^\w\s]', '', text)
RECURSIVE RemovePunctuation(_)
RemovePunctuation(cs) ==
    IF cs = <<>> THEN <<>>
    ELSE IF IsWord(Head(cs)) \/ IsSpace(Head(cs))
         THEN <<Head(cs)>> \o RemovePunctuation(Tail(cs))
         ELSE RemovePunctuation(Tail(cs))

\* Line 22: re.sub(r'\s+', ' ', text)
RECURSIVE CollapseWhitespace(_)
CollapseWhitespace(cs) ==
    IF cs = <<>> THEN <<>>
    ELSE IF IsSpace(Head(cs))
         THEN IF Len(cs) > 1 /\ IsSpace(cs[2])
              THEN CollapseWhitespace(Tail(cs))
              ELSE <<" ">> \o CollapseWhitespace(Tail(cs))
         ELSE <<Head(cs)>> \o CollapseWhitespace(Tail(cs))

\* str.strip()
RECURSIVE Strip(_)
Strip(cs) ==
    IF cs = <<>> THEN <<>>
    ELSE IF IsSpace(Head(cs)) THEN Strip(Tail(cs))
    ELSE IF IsSpace(cs[Len(cs)]) THEN Strip(SubSeq(cs, 1, Len(cs) - 1))
    ELSE cs

\* preprocess_text without text.lower()
preprocess_text_KeepCase(cs) ==
    Strip(CollapseWhitespace(RemovePunctuation(cs)))

\* Lines 15-23: the second (effective) definition of preprocess_text
preprocess_text(cs) ==
    Strip(CollapseWhitespace(RemovePunctuation(
        [i \in 1..Len(cs) |-> LowerChar(cs[i])])))

\* str.split(): the maximal runs of non-whitespace characters
RECURSIVE Split(_)
Split(cs) ==
    IF cs = <<>> THEN <<>>
    ELSE IF IsSpace(Head(cs)) THEN Split(Tail(cs))
    ELSE LET ends == {k \in 1..Len(cs) : k = Len(cs) \/ IsSpace(cs[k + 1])}
             e == CHOOSE k \in ends : \A o \in ends : k <= o
         IN  <<SubSeq(cs, 1, e)>> \o Split(SubSeq(cs, e + 1, Len(cs)))

----------------------------------------------------------------------------
(* difflib.SequenceMatcher(None, a, b).ratio() on sequences shorter than   *)
(* the 200 elements at which autojunk starts to act                        *)

MatchAt(a, b, i, j, k) == \A d \in 0..(k - 1) : a[i + d] = b[j + d]

\* find_longest_match on a[alo..ahi-1], b[blo..bhi-1]: the longest common
\* block, the one starting earliest in a, then earliest in b
FindLongestMatch(a, b, alo, ahi, blo, bhi) ==
    LET cands == {c \in (alo..(ahi - 1)) \X (blo..(bhi - 1)) \X (1..Min(ahi - alo, bhi - blo)) :
                     /\ c[1] + c[3] <= ahi
                     /\ c[2] + c[3] <= bhi
                     /\ MatchAt(a, b, c[1], c[2], c[3])}
        Better(c, o) == \/ c[3] > o[3]
                        \/ c[3] = o[3] /\ c[1] < o[1]
                        \/ c[3] = o[3] /\ c[1] = o[1] /\ c[2] <= o[2]
    IN  IF cands = {} THEN <<alo, blo, 0>>
        ELSE CHOOSE c \in cands : \A o \in cands : Better(c, o)

\* get_matching_blocks: the total size of the blocks found by matching the
\* longest block and then the pieces to its left and to its right
RECURSIVE Matches(_, _, _, _, _, _)
Matches(a, b, alo, ahi, blo, bhi) ==
    LET m == FindLongestMatch(a, b, alo, ahi, blo, bhi)
        i == m[1]
        j == m[2]
        k == m[3]
    IN  IF k = 0 THEN 0
        ELSE k + (IF alo < i /\ blo < j THEN Matches(a, b, alo, i, blo, j) ELSE 0)
               + (IF i + k < ahi /\ j + k < bhi
                  THEN Matches(a, b, i + k, ahi, j + k, bhi) ELSE 0)

----------------------------------------------------------------------------
(* Exact fractions *)

RECURSIVE GCD(_, _)
GCD(x, y) == IF y = 0 THEN x ELSE GCD(y, x % y)

RatNorm(n, d) == LET g == GCD(n, d) IN Rat(n \div g, d \div g)

RatAdd(p, q) == RatNorm(p.n * q.d + q.n * p.d, p.d * q.d)

RatDivInt(p, k) == RatNorm(p.n, p.d * k)

RatLeq(p, q) == p.n * q.d <= q.n * p.d

RECURSIVE RatSum(_)
RatSum(rs) == IF rs = <<>> THEN Rat(0, 1) ELSE RatAdd(Head(rs), RatSum(Tail(rs)))

\* Ratio relating the matches to the longer sequence alone
Ratio_OverLonger(a, b) ==
    IF Len(a) + Len(b) = 0 THEN Rat(1, 1)
    ELSE RatNorm(2 * Matches(a, b, 1, Len(a) + 1, 1, Len(b) + 1), Max(Len(a), Len(b)))

\* difflib _calculate_ratio: 2.0 * matches / length, 1.0 when length is 0
Ratio(a, b) ==
    IF Len(a) + Len(b) = 0 THEN Rat(1, 1)
    ELSE RatNorm(2 * Matches(a, b, 1, Len(a) + 1, 1, Len(b) + 1), Len(a) + Len(b))

----------------------------------------------------------------------------
(* extract_numbers *)

\* The end of the run of digits that starts at position i
RECURSIVE DigitRunEnd(_, _)
DigitRunEnd(cs, i) ==
    IF i < Len(cs) /\ cs[i + 1] \in Digits THEN DigitRunEnd(cs, i + 1) ELSE i

\* LStripSigns leaving the text as it is
LStripSigns_Keep(cs) == cs

\* str.lstrip('+-')
RECURSIVE LStripSigns(_)
LStripSigns(cs) ==
    IF cs # <<>> /\ Head(cs) \in {"+", "-"} THEN LStripSigns(Tail(cs)) ELSE cs

\* Lines 176-178: re.findall(r'[+-]?\d+(?:\.\d+)?', text) scanning from
\* position i, each match stripped of its leading sign
RECURSIVE FindNumbers(_, _)
FindNumbers(cs, i) ==
    IF i > Len(cs) THEN <<>>
    ELSE LET s == IF cs[i] \in {"+", "-"} THEN i + 1 ELSE i
         IN  IF s <= Len(cs) /\ cs[s] \in Digits
             THEN LET e1 == DigitRunEnd(cs, s)
                      e == IF e1 + 2 <= Len(cs) /\ cs[e1 + 1] = "." /\ cs[e1 + 2] \in Digits
                           THEN DigitRunEnd(cs, e1 + 2) ELSE e1
                  IN  <<LStripSigns(SubSeq(cs, i, e))>> \o FindNumbers(cs, e + 1)
             ELSE FindNumbers(cs, i + 1)

extract_numbers(cs) == FindNumbers(cs, 1)

\* PageCommonCount counting the positions at which the two lists agree
PageCommonCount_Positional(ai_numbers, pdf_numbers) ==
    Cardinality({i \in 1..Min(Len(ai_numbers), Len(pdf_numbers)) :
                    ai_numbers[i] = pdf_numbers[i]})

\* Counter(tokens)[token]
Count(tokens, token) == Cardinality({i \in 1..Len(tokens) : tokens[i] = token})

\* Lines 225-227: the sum over the distinct tokens of the AI side (the first
\* k positions of it) of min(count on the AI side, count on the PDF side)
RECURSIVE CommonUpTo(_, _, _)
CommonUpTo(ai_numbers, pdf_numbers, k) ==
    IF k = 0 THEN 0
    ELSE CommonUpTo(ai_numbers, pdf_numbers, k - 1) +
         (IF \E i \in 1..(k - 1) : ai_numbers[i] = ai_numbers[k] THEN 0
          ELSE Min(Count(ai_numbers, ai_numbers[k]), Count(pdf_numbers, ai_numbers[k])))

PageCommonCount(ai_numbers, pdf_numbers) ==
    CommonUpTo(ai_numbers, pdf_numbers, Len(ai_numbers))

----------------------------------------------------------------------------
(* The texts of the model *)

\* Page texts of the AI side
AiTexts ==
    {Absent,
     Text(<<>>),
     Text(<<"P","a","y"," ","1","0","0">>),
     Text(<<"p","a","y",","," ","1","0","0",".","0","0"," ","-","7">>)}

\* Page texts PDFHandler.extract_text extracts (always a string)
PdfTexts ==
    {Text(<<>>),
     Text(<<"p","a","y"," ","1","0","0">>),
     Text(<<"0","7"," "," ","+","1","0","0",".","0","0">>)}

\* The two texts of a page, AI side and PDF side, of the documents whose
\* pages are compared in any order: word similarities 2/3, 1/2 and 1/3
OrderPagePairs ==
    {<<Text(<<"1"," ","2">>), Text(<<"1">>)>>,
     <<Text(<<"1"," ","2">>), Text(<<"1"," ","3">>)>>,
     <<Text(<<"1"," ","2"," ","3">>), Text(<<"1"," ","4"," ","5">>)>>}

----------------------------------------------------------------------------
(* Page lookup shared by compare_text and compare_numbers *)

\* Lines 113, 197: the number of page numbers the loops visit
TotalPages(pages_ai, pages_pdf) == Max(Len(pages_ai), Len(pages_pdf))

\* Lines 116-120, 201-205: page_text of the first page of the list whose
\* page_number is page_num; Absent when there is no such page or it has no
\* page_text key
PageText(pages, page_num) ==
    LET idx == {i \in 1..Len(pages) : pages[i].page_number = page_num}
    IN  IF idx = {} THEN Absent
        ELSE pages[CHOOSE i \in idx : \A o \in idx : i <= o].page_text

\* Lines 119-120: the text compare_text uses when the page or its page_text
\* is missing
MissingTextDefault == Text(<<"u","n","k","n","o","w","n">>)

\* Lines 204-205: the text compare_numbers uses in that case
MissingNumbersDefault == Text(<<>>)

AllTexts ==
    AiTexts \cup PdfTexts \cup {MissingTextDefault, MissingNumbersDefault}
    \cup {pair[1] : pair \in OrderPagePairs} \cup {pair[2] : pair \in OrderPagePairs}

\* Lines 123-124: preprocess_text(text).split(), tabulated over the texts
WordsOf == [x \in AllTexts \ {Absent} |-> Split(preprocess_text(x.cs))]

\* Lines 126-127, tabulated
SimilarityOf ==
    [p \in (AllTexts \ {Absent}) \X (AllTexts \ {Absent}) |->
        Ratio(WordsOf[p[1]], WordsOf[p[2]])]

\* Lines 208-209, tabulated
NumbersOf == [x \in AllTexts \ {Absent} |-> extract_numbers(x.cs)]

\* Lines 221-227, tabulated
CommonOf ==
    [p \in (AllTexts \ {Absent}) \X (AllTexts \ {Absent}) |->
        PageCommonCount(NumbersOf[p[1]], NumbersOf[p[2]])]

----------------------------------------------------------------------------
(* compare_text *)

\* Lines 119-129: the similarity of one page number; a page_text that is
\* not a string makes preprocess_text raise AttributeError
PageSimilarity(pages_ai, pages_pdf, page_num) ==
    LET ai_text == Get(PageText(pages_ai, page_num), MissingTextDefault)
        pdf_text == Get(PageText(pages_pdf, page_num), MissingTextDefault)
    IN  IF ai_text.t # "text" \/ pdf_text.t # "text"
        THEN [err |-> "AttributeError", ratio |-> Rat(0, 1)]
        ELSE [err |-> "none",
              ratio |-> SimilarityOf[<<ai_text, pdf_text>>]]

\* Lines 115-129: page_similarities after the loop has visited 1..k, and the
\* exception that ended it, if any
RECURSIVE TextLoop(_, _, _)
TextLoop(pages_ai, pages_pdf, k) ==
    IF k = 0 THEN [sims |-> <<>>, err |-> "none"]
    ELSE LET before == TextLoop(pages_ai, pages_pdf, k - 1)
             page == PageSimilarity(pages_ai, pages_pdf, k)
         IN  IF before.err # "none" THEN before
             ELSE IF page.err # "none" THEN [before EXCEPT !.err = page.err]
             ELSE [before EXCEPT !.sims = Append(@, page.ratio)]

\* OverallSimilarity with the vacuous-match convention for an empty document
OverallSimilarity_EmptyIsOne(sims) ==
    IF sims # <<>> THEN RatDivInt(RatSum(sims), Len(sims)) ELSE Rat(1, 1)

\* OverallSimilarity averaging over the pages that share a token only
OverallSimilarity_MatchingPagesOnly(sims) ==
    LET matching == SelectSeq(sims, LAMBDA r : r.n > 0)
    IN  IF matching # <<>> THEN RatDivInt(RatSum(matching), Len(matching)) ELSE Rat(0, 1)

\* Lines 153-156: the mean of the stored ratios, 0 when there is none
OverallSimilarity(sims) ==
    IF sims # <<>> THEN RatDivInt(RatSum(sims), Len(sims)) ELSE Rat(0, 1)

----------------------------------------------------------------------------
(* compare_numbers *)

\* Lines 204-232: the token counts of one page number; a page_text that is
\* not a string makes re.findall raise TypeError
PageNumbers(pages_ai, pages_pdf, page_num) ==
    LET ai_text == Get(PageText(pages_ai, page_num), MissingNumbersDefault)
        pdf_text == Get(PageText(pages_pdf, page_num), MissingNumbersDefault)
    IN  IF ai_text.t # "text" \/ pdf_text.t # "text"
        THEN [err |-> "TypeError", ai |-> 0, pdf |-> 0, common |-> 0]
        ELSE [err |-> "none",
              ai |-> Len(NumbersOf[ai_text]), pdf |-> Len(NumbersOf[pdf_text]),
              common |-> CommonOf[<<ai_text, pdf_text>>]]

\* Lines 192-232: the three running totals after the loop has visited 1..k
RECURSIVE NumbersLoop(_, _, _)
NumbersLoop(pages_ai, pages_pdf, k) ==
    IF k = 0
    THEN [total_common_count |-> 0, total_ai_numbers |-> 0,
          total_pdf_numbers |-> 0, err |-> "none"]
    ELSE LET before == NumbersLoop(pages_ai, pages_pdf, k - 1)
             page == PageNumbers(pages_ai, pages_pdf, k)
         IN  IF before.err # "none" THEN before
             ELSE IF page.err # "none" THEN [before EXCEPT !.err = page.err]
             ELSE [total_common_count |-> before.total_common_count + page.common,
                   total_ai_numbers |-> before.total_ai_numbers + page.ai,
                   total_pdf_numbers |-> before.total_pdf_numbers + page.pdf,
                   err |-> "none"]

\* NumericMatchRatio reporting a full match when there is no token at all
NumericMatchRatio_EmptyIsFull(totals) ==
    LET overall_total == Max(totals.total_ai_numbers, totals.total_pdf_numbers)
    IN  IF overall_total > 0
        THEN RatNorm(totals.total_common_count * 100, overall_total)
        ELSE Rat(100, 1)

\* NumericMatchRatio dividing by the smaller of the two totals
NumericMatchRatio_OverMin(totals) ==
    LET overall_total == Min(totals.total_ai_numbers, totals.total_pdf_numbers)
    IN  IF overall_total > 0
        THEN RatNorm(totals.total_common_count * 100, overall_total)
        ELSE Rat(0, 1)

\* NumericMatchRatio dividing by the AI side's total
NumericMatchRatio_OverAiCount(totals) ==
    IF totals.total_ai_numbers > 0
    THEN RatNorm(totals.total_common_count * 100, totals.total_ai_numbers)
    ELSE Rat(0, 1)

\* Lines 256-260
NumericMatchRatio(totals) ==
    LET overall_total == Max(totals.total_ai_numbers, totals.total_pdf_numbers)
    IN  IF overall_total > 0
        THEN RatNorm(totals.total_common_count * 100, overall_total)
        ELSE Rat(0, 1)

\* NumericCountDiff without the absolute value
NumericCountDiff_Signed(totals) == totals.total_ai_numbers - totals.total_pdf_numbers

\* Line 262
NumericCountDiff(totals) == Abs(totals.total_ai_numbers - totals.total_pdf_numbers)

----------------------------------------------------------------------------
(* StatementVerifier.__init__ and load_json *)

Dict(pages) == [t |-> "dict", pages |-> pages]

EmptyDict == Dict(Absent)

\* Lines 81-99: the string names an existing file or is JSON text; either
\* way the parsed value is returned, and {} when parsing raises
load_json(input_str) ==
    IF input_str.isfile
    THEN (IF input_str.loads.t = "error" THEN EmptyDict ELSE input_str.loads)
    ELSE (IF input_str.loads.t = "error" THEN EmptyDict ELSE input_str.loads)

\* Lines 42, 55-57: ai_data
AiData(output) ==
    LET loaded == IF output.t = "jsonstr" THEN load_json(output) ELSE output
    IN  IF loaded.t # "dict" THEN EmptyDict ELSE loaded

\* Lines 60-64: pages_ai["pages"]
PagesAi(ai_data) ==
    LET ai_pages == Get(ai_data.pages, List(<<>>))
    IN  IF ai_pages.t # "list" THEN <<>> ELSE ai_pages.xs

\* Lines 67-75: pages_pdf["pages"] (text_pages is the list PDFHandler builds)
PagesPdf(handler) ==
    IF handler # NoneV THEN handler.text_pages ELSE <<>>

\* Lines 39-75: the instance __init__ leaves behind
NewVerifier(output, handler) ==
    [ai_data |-> AiData(output),
     pages_ai |-> PagesAi(AiData(output)),
     pages_pdf |-> PagesPdf(handler),
     page_similarities |-> <<>>,
     ai_word_similarity |-> NoneV,
     ai_numeric_match_ratio |-> NoneV,
     ai_numeric_count_diff |-> NoneV,
     opening_balance |-> NoneV,
     closing_balance |-> NoneV,
     transaction_count |-> NoneV,
     computed_vs_stated_diff |-> NoneV,
     balance_mismatch |-> NoneV]

\* bool(x) of a JSON value that is not a list
Truthy(x) ==
    \/ x.t = "str" /\ x.s # ""
    \/ x.t \in {"num"} /\ x.v # 0

\* Lines 289-293: the pages the balance loop iterates over; a value that is
\* empty or false ends the method at once
BalancePages(ai_data) == Get(ai_data.pages, List(<<>>))

\* NoPages testing for the empty list only (pages == [] for not pages)
NoPages_EmptyListOnly(pages) == pages.t = "list" /\ pages.xs = <<>>

NoPages(pages) == IF pages.t = "list" THEN pages.xs = <<>> ELSE ~Truthy(pages)

\* Lines 302-303 on a value that is not a list: iterating a string yields
\* strings, which have no get; a number cannot be iterated
IterationError(pages) == IF pages.t = "str" THEN "AttributeError" ELSE "TypeError"

----------------------------------------------------------------------------
(* Inputs *)

Page(n, page_text, ob, cb, tx) ==
    [page_number |-> n, page_text |-> page_text, opening_balance |-> ob,
     closing_balance |-> cb, transactions |-> tx]

Tx(amount) == [amount |-> amount]

\* Balances, as the AI writes them
RegularOpenings == {Absent, Num(100)}

RegularClosings == {Absent, Num(105), Num(106), Num(107)}

RegularTransactions ==
    {List(<<>>), List(<<Tx(NumStr(7)), Tx(NumStr(-2))>>)}

IrregularOpenings == {Unknown, Str("n/a"), Null}

IrregularClosings == {Unknown, Str("n/a"), Null}

IrregularTransactions ==
    {Absent, Unknown, Null,
     List(<<Tx(Unknown), Tx(NumStr(5))>>), List(<<Tx(Null)>>), List(<<Tx(Absent)>>)}

\* The balance fields of a page: any regular combination, one irregular
\* field beside regular ones, or a stated closing one hundredth above the
\* computed one
BalanceFields ==
    (RegularOpenings \X RegularClosings \X RegularTransactions)
    \cup (IrregularOpenings \X {Absent} \X {List(<<Tx(NumStr(5))>>)})
    \cup ({Num(100)} \X IrregularClosings \X {List(<<Tx(NumStr(5))>>)})
    \cup ({Num(100)} \X {Num(105)} \X IrregularTransactions)
    \cup {<<Num(107), Num(113), List(<<Tx(NumStr(7)), Tx(NumStr(-2))>>)>>}

\* The page numbers of a list of n pages: ascending, descending or all equal
PageNumberings(n) ==
    {[i \in 1..n |-> i], [i \in 1..n |-> n + 1 - i], [i \in 1..n |-> 1]}

\* An AI page list that varies the balance fields
BalancePageList(n, f, nums) ==
    [i \in 1..n |-> Page(nums[i], Absent, f[i][1], f[i][2], f[i][3])]

\* The pages of the AI page lists that vary the page numbers and the texts
TextPages ==
    {Page(k, page_text, Absent, Absent, Absent) :
        k \in 1..(MaxAiPages + 1), page_text \in AiTexts}

\* The pages of the AI page lists in which a page_text may be null
NullTextPages ==
    {Page(1, Text(<<"P","a","y"," ","1","0","0">>), Absent, Absent, Absent),
     Page(2, Null, Absent, Absent, Absent)}

\* text_pages as PDFHandler.extract_text builds it: numbered from 1
PdfPageList(n, texts) == [i \in 1..n |-> [page_number |-> i, page_text |-> texts[i]]]

Handler(text_pages) == [t |-> "handler", text_pages |-> text_pages]

JsonStr(isfile, loads) == [t |-> "jsonstr", isfile |-> isfile, loads |-> loads]

OnePage == <<Page(1, Text(<<"P","a","y"," ","1","0","0">>), Num(100), Num(105),
                  List(<<Tx(NumStr(5))>>))>>

\* Roots that are not a dict with a list of pages
MalformedRoots ==
    {NoneV, [t |-> "other"], EmptyDict}
    \cup {JsonStr(f, l) : f \in BOOLEAN, l \in {[t |-> "error"], [t |-> "other"]}}
    \cup {Dict(p) : p \in {Null, Str(""), Str("abc"), Num(0), Num(5)}}

\* Well-formed roots passed as a JSON string
StringRoots == {JsonStr(f, Dict(List(OnePage))) : f \in BOOLEAN}

----------------------------------------------------------------------------
(* The state machine *)

InitPdf ==
    \E n \in 0..MaxPdfPages : \E texts \in [1..n -> PdfTexts] :
        pdf_handler = Handler(PdfPageList(n, texts))

InitBalance ==
    /\ \E n \in 0..MaxAiPages : \E f \in [1..n -> BalanceFields] :
       \E nums \in PageNumberings(n) :
           ai_output = Dict(List(BalancePageList(n, f, nums)))
    /\ pdf_handler = Handler(<<>>)

InitText ==
    /\ \E n \in 0..MaxAiPages : \E pages \in [1..n -> TextPages] :
           ai_output = Dict(List(pages))
    /\ InitPdf

InitNullText ==
    /\ \E n \in 1..MaxAiPages : \E pages \in [1..n -> NullTextPages] :
           ai_output = Dict(List(pages))
    /\ InitPdf

InitRoot ==
    /\ ai_output \in MalformedRoots \cup StringRoots
    /\ pdf_handler = NoneV \/ InitPdf

Init ==
    /\ (InitBalance \/ InitText \/ InitNullText \/ InitRoot)
    /\ pc = "ready"
    /\ self = NewVerifier(ai_output, pdf_handler)
    /\ done = {}
    /\ exc = "none"
    /\ record = NoneV
    /\ text = NoneV
    /\ calls = <<>>
    /\ db = NoneV

\* Lines 102-161
CompareText ==
    /\ pc = "ready"
    /\ LET r == TextLoop(self.pages_ai, self.pages_pdf,
                         TotalPages(self.pages_ai, self.pages_pdf))
       IN  IF r.err # "none"
           THEN /\ self' = [self EXCEPT !.page_similarities = r.sims]
                /\ pc' = "raised"
                /\ exc' = r.err
                /\ done' = done
           ELSE /\ self' = [self EXCEPT !.page_similarities = r.sims,
                                        !.ai_word_similarity = OverallSimilarity(r.sims)]
                /\ done' = done \cup {"compare_text"}
                /\ UNCHANGED <<pc, exc>>
    /\ UNCHANGED <<ai_output, pdf_handler, record, text, calls, db>>

\* Lines 180-266
CompareNumbers ==
    /\ pc = "ready"
    /\ LET r == NumbersLoop(self.pages_ai, self.pages_pdf,
                            TotalPages(self.pages_ai, self.pages_pdf))
       IN  IF r.err # "none"
           THEN /\ pc' = "raised"
                /\ exc' = r.err
                /\ UNCHANGED <<self, done>>
           ELSE /\ self' = [self EXCEPT !.ai_numeric_match_ratio = NumericMatchRatio(r),
                                        !.ai_numeric_count_diff = Num(NumericCountDiff(r))]
                /\ done' = done \cup {"compare_numbers"}
                /\ UNCHANGED <<pc, exc>>
    /\ UNCHANGED <<ai_output, pdf_handler, record, text, calls, db>>

\* ResetBalance clearing the results of the other analyses as well
ResetBalance_ClearsAll(s) ==
    [s EXCEPT !.opening_balance = NoneV,
              !.closing_balance = NoneV,
              !.transaction_count = Num(0),
              !.computed_vs_stated_diff = FloatZero,
              !.balance_mismatch = Num(0),
              !.ai_word_similarity = NoneV,
              !.ai_numeric_match_ratio = NoneV,
              !.ai_numeric_count_diff = NoneV]

\* Lines 282-286: the fields the balance pass sets at entry
ResetBalance(s) ==
    [s EXCEPT !.opening_balance = NoneV,
              !.closing_balance = NoneV,
              !.transaction_count = Num(0),
              !.computed_vs_stated_diff = FloatZero,
              !.balance_mismatch = Num(0)]

\* Lines 269-391 with the default tolerance
VerifyBalance ==
    /\ pc = "ready"
    /\ LET pages == BalancePages(self.ai_data)
           reset == ResetBalance(self)
       IN  IF NoPages(pages)
           THEN /\ self' = reset
                /\ done' = done \cup {"verify_balance"}
                /\ UNCHANGED <<pc, exc>>
           ELSE IF pages.t # "list"
           THEN /\ self' = reset
                /\ pc' = "raised"
                /\ exc' = IterationError(pages)
                /\ done' = done
           ELSE LET st == BalanceFinal(pages.xs, Tolerance)
                IN  IF st.err # "none"
                    THEN /\ self' = reset
                         /\ pc' = "raised"
                         /\ exc' = st.err
                         /\ done' = done
                    ELSE /\ self' = [reset EXCEPT
                                       !.opening_balance = st.opening_balance,
                                       !.closing_balance = st.closing_balance,
                                       !.transaction_count = st.transaction_count,
                                       !.computed_vs_stated_diff = st.computed_vs_stated_diff,
                                       !.balance_mismatch =
                                           IF st.any_mismatch THEN Num(1) ELSE Num(0)]
                         /\ done' = done \cup {"verify_balance"}
                         /\ UNCHANGED <<pc, exc>>
    /\ UNCHANGED <<ai_output, pdf_handler, record, text, calls, db>>

\* get_text_similarity_ratio answering 0.0 while no similarity is stored
get_text_similarity_ratio_ZeroIfUnset(s) ==
    IF s.ai_word_similarity = NoneV THEN Rat(0, 1) ELSE s.ai_word_similarity

\* Lines 163-168: getattr(self, 'ai_word_similarity', 0.0); __init__ always
\* sets the attribute, so the default never applies
get_text_similarity_ratio(s) == s.ai_word_similarity

\* LocalPreper.gather_data, lines 45-54: the eight features read from the verifier
gather_data(statement_verifier) ==
    [ai_word_similarity |-> get_text_similarity_ratio(statement_verifier),
     ai_numeric_match_ratio |-> statement_verifier.ai_numeric_match_ratio,
     ai_numeric_count_diff |-> statement_verifier.ai_numeric_count_diff,
     opening_balance |-> statement_verifier.opening_balance,
     closing_balance |-> statement_verifier.closing_balance,
     transaction_count |-> statement_verifier.transaction_count,
     computed_vs_stated_diff |-> statement_verifier.computed_vs_stated_diff,
     balance_mismatch |-> statement_verifier.balance_mismatch]

\* A caller of LocalPreper.gather_data
GatherData ==
    /\ pc = "ready"
    /\ record' = gather_data(self)
    /\ pc' = "gathered"
    /\ UNCHANGED <<ai_output, pdf_handler, self, done, exc, text, calls, db>>

\* main.py lines 121-134 and app.py lines 103-127: the callers construct the
\* verifier, call the three analyses in this order and then gather the
\* features; an exception ends the run (main.py line 129)
Next ==
    \/ done = {} /\ CompareText
    \/ done = {"compare_text"} /\ CompareNumbers
    \/ done = {"compare_text", "compare_numbers"} /\ VerifyBalance
    \/ done = {"compare_text", "compare_numbers", "verify_balance"} /\ GatherData

Spec == Init /\ [][Next]_vars

\* A caller of the public methods in any order, any number of times, that
\* gathers the features at any point; an exception still ends the run
NextAnyOrder ==
    \/ CompareText
    \/ CompareNumbers
    \/ VerifyBalance
    \/ GatherData

SpecAnyOrder == Init /\ [][NextAnyOrder]_vars

\* The callers on documents of up to MaxBalancePages pages that vary the
\* balance fields
InitBalancePass ==
    /\ \E n \in 0..MaxBalancePages : \E f \in [1..n -> BalanceFields] :
           ai_output = Dict(List(BalancePageList(n, f, [i \in 1..n |-> i])))
    /\ pdf_handler = Handler(<<>>)
    /\ pc = "ready"
    /\ self = NewVerifier(ai_output, pdf_handler)
    /\ done = {}
    /\ exc = "none"
    /\ record = NoneV
    /\ text = NoneV
    /\ calls = <<>>
    /\ db = NoneV

SpecBalance == InitBalancePass /\ [][Next]_vars

----------------------------------------------------------------------------
(* extract_numbers called on arbitrary texts *)

\* The characters of the texts: digits, the decimal point, the signs, a
\* blank and a letter
TextChars == {"1", "2", ".", "+", "-", " ", "a"}

\* " ".join(tokens)
RECURSIVE JoinTokens(_)
JoinTokens(tokens) ==
    IF tokens = <<>> THEN <<>>
    ELSE IF Len(tokens) = 1 THEN tokens[1]
    ELSE tokens[1] \o <<" ">> \o JoinTokens(Tail(tokens))

InitExtract ==
    /\ \E n \in 0..MaxTextLen : \E cs \in [1..n -> TextChars] : text = Text(cs)
    /\ calls = <<>>
    /\ db = NoneV
    /\ pc = "text"
    /\ ai_output = NoneV
    /\ pdf_handler = NoneV
    /\ self = NewVerifier(ai_output, pdf_handler)
    /\ done = {}
    /\ exc = "none"
    /\ record = NoneV

\* Lines 170-178: a call of the static method on the current text
ExtractNumbers ==
    /\ pc \in {"text", "reserialized"}
    /\ calls' = Append(calls, [text |-> text, numbers |-> extract_numbers(text.cs)])
    /\ pc' = IF pc = "text" THEN "extracted" ELSE "reextracted"
    /\ UNCHANGED <<ai_output, pdf_handler, self, done, exc, record, text, db>>

\* The caller joins the tokens of the last result by blanks into the next text
Reserialize ==
    /\ pc = "extracted"
    /\ text' = Text(JoinTokens(calls[Len(calls)].numbers))
    /\ pc' = "reserialized"
    /\ UNCHANGED <<ai_output, pdf_handler, self, done, exc, record, calls, db>>

NextExtract ==
    \/ ExtractNumbers
    \/ Reserialize

SpecExtract == InitExtract /\ [][NextExtract]_vars

----------------------------------------------------------------------------
(* The numbers of one page compared, on texts of signed numbers *)

\* The numbers written in the texts, and the signs before them
NumberWords == {<<"2", "0", "0">>, <<"7">>}

Signs == {<<>>, <<"+">>, <<"-">>}

SignedWords == {sign \o word : sign \in Signs, word \in NumberWords}

\* The texts of up to MaxTokens signed numbers separated by blanks
NumberTexts ==
    {Text(JoinTokens(words)) :
        words \in UNION {[1..n -> SignedWords] : n \in 0..MaxTokens}}

InitCommon ==
    /\ \E ai_text \in NumberTexts : \E pdf_text \in NumberTexts :
           text = [ai_text |-> ai_text, pdf_text |-> pdf_text]
    /\ calls = <<>>
    /\ db = NoneV
    /\ pc = "text"
    /\ ai_output = NoneV
    /\ pdf_handler = NoneV
    /\ self = NewVerifier(ai_output, pdf_handler)
    /\ done = {}
    /\ exc = "none"
    /\ record = NoneV

\* Lines 207-227: the numbers of the two texts of a page and their common
\* count
ComparePageNumbers ==
    /\ pc = "text"
    /\ LET ai_numbers == extract_numbers(text.ai_text.cs)
           pdf_numbers == extract_numbers(text.pdf_text.cs)
       IN  calls' = Append(calls, [text |-> text,
                                   ai_numbers |-> ai_numbers,
                                   pdf_numbers |-> pdf_numbers,
                                   page_common_count |->
                                       PageCommonCount(ai_numbers, pdf_numbers)])
    /\ pc' = "compared"
    /\ UNCHANGED <<ai_output, pdf_handler, self, done, exc, record, text, db>>

\* The words of a text with those at positions i and i + 1 exchanged
SwapWords(cs, i) ==
    LET words == Split(cs)
    IN  Text(JoinTokens([words EXCEPT ![i] = words[i + 1], ![i + 1] = words[i]]))

\* The words of a text with the sign of the one at position i replaced
ResignWord(cs, i, sign) ==
    LET words == Split(cs)
    IN  Text(JoinTokens([words EXCEPT ![i] = sign \o LStripSigns(words[i])]))

\* The next document has the same page with two neighbouring numbers of one
\* side exchanged
SwapTokens ==
    /\ pc = "compared"
    /\ Len(calls) <= MaxRewrites
    /\ \/ \E i \in 1..(Len(Split(text.ai_text.cs)) - 1) :
              text' = [text EXCEPT !.ai_text = SwapWords(text.ai_text.cs, i)]
       \/ \E i \in 1..(Len(Split(text.pdf_text.cs)) - 1) :
              text' = [text EXCEPT !.pdf_text = SwapWords(text.pdf_text.cs, i)]
    /\ pc' = "text"
    /\ UNCHANGED <<ai_output, pdf_handler, self, done, exc, record, calls, db>>

\* The next document has the same page with the sign of one number of one
\* side changed
ChangeSign ==
    /\ pc = "compared"
    /\ Len(calls) <= MaxRewrites
    /\ \E sign \in Signs :
          \/ \E i \in 1..Len(Split(text.ai_text.cs)) :
                 text' = [text EXCEPT !.ai_text = ResignWord(text.ai_text.cs, i, sign)]
          \/ \E i \in 1..Len(Split(text.pdf_text.cs)) :
                 text' = [text EXCEPT !.pdf_text = ResignWord(text.pdf_text.cs, i, sign)]
    /\ text' # text
    /\ pc' = "text"
    /\ UNCHANGED <<ai_output, pdf_handler, self, done, exc, record, calls, db>>

NextCommon ==
    \/ ComparePageNumbers
    \/ SwapTokens
    \/ ChangeSign

SpecCommon == InitCommon /\ [][NextCommon]_vars

----------------------------------------------------------------------------
(* The iterations of the loops of compare_text and compare_numbers taken   *)
(* in any order                                                            *)

InitPageOrder ==
    /\ \E n \in 0..MaxOrderPages : \E pairs \in [1..n -> OrderPagePairs] :
           /\ ai_output =
                  Dict(List([i \in 1..n |-> Page(i, pairs[i][1], Absent, Absent, Absent)]))
           /\ pdf_handler = Handler(PdfPageList(n, [i \in 1..n |-> pairs[i][2]]))
    /\ pc = "ready"
    /\ self = NewVerifier(ai_output, pdf_handler)
    /\ done = {}
    /\ exc = "none"
    /\ record = NoneV
    /\ text = NoneV
    /\ calls = <<>>
    /\ db = NoneV

\* matcher.ratio(), line 127: the float 2.0 * matches / length
SimilarityFloat(ratio) == Signed(FALSE, FractionToFloat(ratio.n, ratio.d))

\* Lines 153-156: sum(values) / len(values) in floats, over the values in
\* the order in which the dict holds them; 0 when there is none
OverallSimilarityFloat(values) ==
    IF values # <<>> THEN FloatDivInt(FloatSum(values), Len(values)) ELSE FloatZero

\* The values of the dict in insertion order
DictValues(entries) == [i \in 1..Len(entries) |-> entries[i].similarity]

DictKeys(entries) == {entries[i].page_num : i \in 1..Len(entries)}

\* Lines 116-129: the iteration of the loop of compare_text for one page
\* number not scored yet; page_similarities holds its entries in insertion
\* order
ScorePage ==
    /\ pc = "ready"
    /\ "compare_text" \notin done
    /\ \E page_num \in 1..TotalPages(self.pages_ai, self.pages_pdf) :
          /\ page_num \notin DictKeys(self.page_similarities)
          /\ LET page == PageSimilarity(self.pages_ai, self.pages_pdf, page_num)
             IN  /\ page.err = "none"
                 /\ self' = [self EXCEPT !.page_similarities =
                                Append(@, [page_num |-> page_num,
                                           similarity |-> SimilarityFloat(page.ratio)])]
    /\ UNCHANGED <<ai_output, pdf_handler, pc, done, exc, record, text, calls, db>>

\* Lines 152-159, once every page number is scored
FinishCompareText ==
    /\ pc = "ready"
    /\ "compare_text" \notin done
    /\ DictKeys(self.page_similarities) = 1..TotalPages(self.pages_ai, self.pages_pdf)
    /\ self' = [self EXCEPT !.ai_word_similarity =
                   OverallSimilarityFloat(DictValues(self.page_similarities))]
    /\ done' = done \cup {"compare_text"}
    /\ UNCHANGED <<ai_output, pdf_handler, pc, exc, record, text, calls, db>>

\* Lines 192-194: the three totals before the loop
NoTotals ==
    [total_common_count |-> 0, total_ai_numbers |-> 0, total_pdf_numbers |-> 0]

\* AddPageTotals replacing the totals by the counts of the page
AddPageTotals_Overwrite(totals, page) ==
    [total_common_count |-> page.common,
     total_ai_numbers |-> page.ai,
     total_pdf_numbers |-> page.pdf]

\* Lines 230-232
AddPageTotals(totals, page) ==
    [total_common_count |-> totals.total_common_count + page.common,
     total_ai_numbers |-> totals.total_ai_numbers + page.ai,
     total_pdf_numbers |-> totals.total_pdf_numbers + page.pdf]

\* The totals after the iterations made so far
RunningTotals == IF calls = <<>> THEN NoTotals ELSE calls[Len(calls)].totals

\* Lines 200-232: the iteration of the loop of compare_numbers for one page
\* number not counted yet
CountPage ==
    /\ pc = "ready"
    /\ "compare_numbers" \notin done
    /\ \E page_num \in 1..TotalPages(self.pages_ai, self.pages_pdf) :
          /\ \A c \in 1..Len(calls) : calls[c].page_num # page_num
          /\ LET page == PageNumbers(self.pages_ai, self.pages_pdf, page_num)
             IN  /\ page.err = "none"
                 /\ calls' = Append(calls, [page_num |-> page_num,
                                            totals |-> AddPageTotals(RunningTotals, page)])
    /\ UNCHANGED <<ai_output, pdf_handler, pc, self, done, exc, record, text, db>>

\* Lines 255-262, once every page number is counted
FinishCompareNumbers ==
    /\ pc = "ready"
    /\ "compare_numbers" \notin done
    /\ Len(calls) = TotalPages(self.pages_ai, self.pages_pdf)
    /\ self' = [self EXCEPT !.ai_numeric_match_ratio = NumericMatchRatio(RunningTotals),
                            !.ai_numeric_count_diff = Num(NumericCountDiff(RunningTotals))]
    /\ done' = done \cup {"compare_numbers"}
    /\ UNCHANGED <<ai_output, pdf_handler, pc, exc, record, text, calls, db>>

NextPageOrder ==
    \/ ScorePage
    \/ FinishCompareText
    \/ CountPage
    \/ FinishCompareNumbers

SpecPageOrder == InitPageOrder /\ [][NextPageOrder]_vars

----------------------------------------------------------------------------
(* The pipeline of main(): the AI analysis, the verifier, the database *)

\* The rows of statement_features a run may find (at most this many)
MaxEarlierRows == 6

\* A page of the AI response with the two fields the checks of main() read
GatePage(n, classification, tampering) ==
    [page_number |-> n,
     page_text |-> Text(<<"P","a","y"," ","1","0","0">>),
     opening_balance |-> Num(100),
     closing_balance |-> Num(100),
     transactions |-> List(<<>>),
     classification |-> classification,
     obvious_tampering |-> tampering]

\* The classifications and the tampering flags the AI writes (1 is Num(100))
GateFields ==
    [classification : {Absent, Str("other"), Str("bank_statement")},
     tampering : {Absent, Num(0), Num(100)}]

\* What json.loads makes of the response: a dict with up to MaxAiPages pages,
\* a dict without 'pages' or with a null 'pages', a value that is no dict,
\* or an error
GptData ==
    UNION {{Dict(List([i \in 1..n |-> GatePage(i, f[i].classification, f[i].tampering)])) :
               f \in [1..n -> GateFields]} : n \in 0..MaxAiPages}
    \cup {EmptyDict, Dict(Null), [t |-> "other"], [t |-> "error"]}

\* OpenAIHelper.analyse_bank_statements, lines 127-130: the content of the
\* reply (a string), or None
GptResponses == {NoneV} \cup {JsonStr(FALSE, loads) : loads \in GptData}

\* main.py line 98: indexing the default [{}] gives a page without fields, an
\* empty list raises IndexError and None raises TypeError
FirstPage(gpt_data) ==
    IF gpt_data.pages = Absent THEN [t |-> "page", page |-> GatePage(1, Absent, Absent)]
    ELSE IF gpt_data.pages.t # "list" \/ gpt_data.pages.xs = <<>>
    THEN [t |-> "raised"]
    ELSE [t |-> "page", page |-> gpt_data.pages.xs[1]]

\* main.py lines 104-105
TamperingFound(gpt_data) ==
    LET pages == Get(gpt_data.pages, List(<<>>))
    IN  \E i \in DOMAIN pages.xs : pages.xs[i].obvious_tampering = Num(100)

\* main.py lines 79-118: where the AI analysis leaves the run. sys.exit
\* raises SystemExit, which except Exception lets through; any other
\* exception of the block is caught at line 115 and the run goes on
AnalysisOutcome(gpt_response) ==
    IF gpt_response = NoneV THEN "verifier"
    ELSE IF gpt_response.loads.t = "error" THEN "exited"
    ELSE IF gpt_response.loads.t # "dict" THEN "verifier"
    ELSE IF FirstPage(gpt_response.loads).t = "raised" THEN "verifier"
    ELSE IF FirstPage(gpt_response.loads).page.classification # Str("bank_statement")
    THEN "exited"
    ELSE IF TamperingFound(gpt_response.loads) THEN "exited"
    ELSE "verifier"

\* A row of statement_features written by an earlier run: the features of
\* a one-page statement that balances
EarlierRow(id, label) ==
    [id |-> id,
     features |-> [ai_word_similarity |-> Rat(1, 1),
                   ai_numeric_match_ratio |-> Rat(100, 1),
                   ai_numeric_count_diff |-> Num(0),
                   opening_balance |-> DecimalToFloat(100),
                   closing_balance |-> DecimalToFloat(100),
                   transaction_count |-> Num(0),
                   computed_vs_stated_diff |-> FloatZero,
                   balance_mismatch |-> Num(0)],
     label |-> label,
     scanned_at |-> "earlier"]

\* The tables a run may find: labelled rows, the newest of them labelled or not
EarlierTables ==
    {[i \in 1..n |-> EarlierRow(i, IF i = n THEN last ELSE Num(0))] :
        n \in 0..MaxEarlierRows, last \in {NoneV, Num(0), Num(100)}}

InitMain ==
    /\ ai_output \in GptResponses
    /\ InitPdf
    /\ pc = "analysis"
    /\ self = NoneV
    /\ done = {}
    /\ exc = "none"
    /\ record = NoneV
    /\ text = NoneV
    /\ calls = <<>>
    /\ \E exists \in BOOLEAN : \E rows \in EarlierTables :
           db = [exists |-> exists, rows |-> rows]

\* main.py lines 79-118
OpenAIAnalysis ==
    /\ pc = "analysis"
    /\ pc' = AnalysisOutcome(ai_output)
    /\ UNCHANGED <<ai_output, pdf_handler, self, done, exc, record, text, calls, db>>

\* main.py line 122
ConstructVerifier ==
    /\ pc = "verifier"
    /\ self' = NewVerifier(ai_output, pdf_handler)
    /\ pc' = "ready"
    /\ UNCHANGED <<ai_output, pdf_handler, done, exc, record, text, calls, db>>

\* LocalPreper.save_to_database, lines 88-136: a new row with the next id,
\* no label and the time of the run; an exception of the insert is printed
\* and swallowed, and the table is as before
save_to_database(rows, parsed_data, insert_raises) ==
    IF insert_raises THEN rows
    ELSE Append(rows, [id |-> Len(rows) + 1, features |-> parsed_data,
                       label |-> NoneV, scanned_at |-> "now"])

\* main.py line 134 and LocalPreper.process_locally, lines 143-155: False
\* when the database file is missing, True after save_to_database returned
ProcessLocally ==
    /\ pc = "ready"
    /\ IF ~db.exists
       THEN /\ pc' = "not_saved"
            /\ UNCHANGED <<record, db>>
       ELSE /\ record' = gather_data(self)
            /\ \E insert_raises \in BOOLEAN :
                   db' = [db EXCEPT !.rows = save_to_database(db.rows, record', insert_raises)]
            /\ pc' = "saved"
    /\ UNCHANGED <<ai_output, pdf_handler, self, done, exc, text, calls>>

\* No feature is NULL
FeaturesComplete(features) == \A col \in DOMAIN features : features[col] # NoneV

\* MachineLearning.py lines 27-31 and 59-62: the rows the model is trained on
TrainingRows(rows) ==
    {i \in DOMAIN rows : rows[i].label # NoneV /\ FeaturesComplete(rows[i].features)}

\* main.py lines 156-159: ORDER BY id DESC LIMIT 1
LatestRecord(rows) == rows[CHOOSE i \in DOMAIN rows : \A j \in DOMAIN rows : rows[j].id <= rows[i].id]

\* MachineLearning.py lines 121-133
update_label_in_db(rows, statement_id, predicted_label) ==
    [i \in DOMAIN rows |-> IF rows[i].id = statement_id
                           THEN [rows[i] EXCEPT !.label = predicted_label]
                           ELSE rows[i]]

\* main.py lines 141-202: with more than five training rows the model is
\* trained, the newest row of the table is predicted and labelled; a missing
\* table or a prediction that raises ends the pipeline with a message
MLPipeline ==
    /\ pc \in {"saved", "not_saved"}
    /\ IF ~db.exists \/ Cardinality(TrainingRows(db.rows)) <= 5
       THEN /\ pc' = "finished"
            /\ UNCHANGED <<calls, db>>
       ELSE \E pred_label \in {Num(0), Num(100), [t |-> "raised"]} :
                IF pred_label.t = "raised"
                THEN /\ ~FeaturesComplete(LatestRecord(db.rows).features)
                     /\ pc' = "finished"
                     /\ UNCHANGED <<calls, db>>
                ELSE /\ calls' = Append(calls, [statement_id |-> LatestRecord(db.rows).id,
                                                predicted_label |-> pred_label])
                     /\ db' = [db EXCEPT !.rows = update_label_in_db(
                                   db.rows, LatestRecord(db.rows).id, pred_label)]
                     /\ pc' = "predicted"
    /\ UNCHANGED <<ai_output, pdf_handler, self, done, exc, record, text>>

\* main.py lines 79-202; an exception of the verifier ends the run (line 129)
NextMain ==
    \/ OpenAIAnalysis
    \/ ConstructVerifier
    \/ done = {} /\ CompareText
    \/ done = {"compare_text"} /\ CompareNumbers
    \/ done = {"compare_text", "compare_numbers"} /\ VerifyBalance
    \/ done = {"compare_text", "compare_numbers", "verify_balance"} /\ ProcessLocally
    \/ MLPipeline

SpecMain == InitMain /\ [][NextMain]_vars

----------------------------------------------------------------------------
(* Vocabulary of the properties *)

AllDone == {"compare_text", "compare_numbers", "verify_balance"}

\* The loop states of the balance pass over the pages of the instance
Trace == BalanceTrace(self.pages_ai, Len(self.pages_ai), Tolerance)

\* The indices of the pages the balance pass processed (did not skip)
Processed == {k \in 1..Len(self.pages_ai) : Trace[k].kind \in {"explicit", "carry_forward"}}

LastProcessed == CHOOSE k \in Processed : \A o \in Processed : o <= k

\* The root is a dict whose 'pages' is a list
WellFormedRoot == self.ai_data.pages # Absent /\ self.ai_data.pages.t = "list"

\* ai_output is a dict, or a string that parses to one
RootIsDict ==
    \/ ai_output.t = "dict"
    \/ ai_output.t = "jsonstr" /\ ai_output.loads.t = "dict"

\* ai_output is an unparseable string, a root that is not a dict, or a dict
\* whose 'pages' is not a list
MalformedInput ==
    \/ ~RootIsDict
    \/ ai_output.t = "dict" /\ ai_output.pages # Absent /\ ai_output.pages.t # "list"

\* The list holds the pages in ascending page_number order
PagesAscending(pages) ==
    \A i, j \in 1..Len(pages) : i < j => pages[i].page_number < pages[j].page_number

PageNumbersUnique(pages) ==
    \A i, j \in 1..Len(pages) : i # j => pages[i].page_number # pages[j].page_number

\* The pages in ascending page_number order (for unique page numbers)
SortedByPageNumber(pages) ==
    [i \in 1..Len(pages) |->
        pages[CHOOSE j \in 1..Len(pages) :
                Cardinality({m \in 1..Len(pages) :
                               pages[m].page_number < pages[j].page_number}) = i - 1]]

\* The greatest page_number present in either source (0 when there is none)
MaxPageNumber(pages_ai, pages_pdf) ==
    LET nums == {pages_ai[i].page_number : i \in 1..Len(pages_ai)}
                \cup {pages_pdf[i].page_number : i \in 1..Len(pages_pdf)}
    IN  IF nums = {} THEN 0 ELSE CHOOSE k \in nums : \A o \in nums : o <= k

HasPage(pages, page_num) == \E i \in 1..Len(pages) : pages[i].page_number = page_num

\* The value a numeric token denotes: its integer part without leading
\* zeros and its fraction without trailing zeros
RECURSIVE StripLeadingZeros(_)
StripLeadingZeros(cs) ==
    IF cs # <<>> /\ Head(cs) = "0" THEN StripLeadingZeros(Tail(cs)) ELSE cs

RECURSIVE StripTrailingZeros(_)
StripTrailingZeros(cs) ==
    IF cs # <<>> /\ cs[Len(cs)] = "0"
    THEN StripTrailingZeros(SubSeq(cs, 1, Len(cs) - 1)) ELSE cs

TokenValue(cs) ==
    LET dots == {i \in 1..Len(cs) : cs[i] = "."}
        dot == IF dots = {} THEN Len(cs) + 1 ELSE CHOOSE i \in dots : TRUE
    IN  <<StripLeadingZeros(SubSeq(cs, 1, dot - 1)),
          StripTrailingZeros(SubSeq(cs, dot + 1, Len(cs)))>>

TokenValues(tokens) == [i \in 1..Len(tokens) |-> TokenValue(tokens[i])]

\* The tokens two sides have in common when tokens are compared by value,
\* summed over the page numbers the loop visits
RECURSIVE CommonByValue(_, _, _)
CommonByValue(pages_ai, pages_pdf, k) ==
    IF k = 0 THEN 0
    ELSE CommonByValue(pages_ai, pages_pdf, k - 1) +
         PageCommonCount(
             TokenValues(NumbersOf[Get(PageText(pages_ai, k), MissingNumbersDefault)]),
             TokenValues(NumbersOf[Get(PageText(pages_pdf, k), MissingNumbersDefault)]))

----------------------------------------------------------------------------
(* Properties *)

\* C1: after the balance pass over a list of pages (in page_number order) of
\* which at least one is processed,
\* opening_balance is the opening of the last processed page, closing_balance
\* its stated closing if numeric and else its computed closing, and
\* computed_vs_stated_diff its diff, whichever pages are skipped.
C1_FinalFieldsOfLastProcessedPage ==
    ("verify_balance" \in done /\ WellFormedRoot /\ PagesAscending(self.pages_ai)
        /\ Processed # {}) =>
        LET st == Trace[LastProcessed]
        IN  /\ self.opening_balance = st.ob_val
            /\ self.closing_balance =
                   (IF st.stated_close # NoneV THEN st.stated_close
                    ELSE st.expected_closing)
            /\ self.computed_vs_stated_diff = st.diff_value

\* The sum of the transaction-list lengths of the processed pages among the
\* first k pages
RECURSIVE ProcessedTransactions(_)
ProcessedTransactions(k) ==
    IF k = 0 THEN 0
    ELSE ProcessedTransactions(k - 1) +
         (IF k \in Processed THEN Len(self.pages_ai[k].transactions.xs) ELSE 0)

\* C2: after the balance pass over a list of pages (in page_number
\* order), transaction_count is the sum of the transaction-list lengths of
\* all processed pages.
C2_TransactionCountSumsProcessedPages ==
    ("verify_balance" \in done /\ WellFormedRoot /\ PagesAscending(self.pages_ai)) =>
        self.transaction_count = Num(ProcessedTransactions(Len(self.pages_ai)))

\* C3: for pages with unique page numbers in any list order, the final
\* balance fields and the mismatch flag are those of the pass over the pages
\* sorted by page_number.
C3_BalancePassInPageNumberOrder ==
    ("verify_balance" \in done /\ WellFormedRoot /\ PageNumbersUnique(self.pages_ai)) =>
        LET st == BalanceFinal(SortedByPageNumber(self.pages_ai), Tolerance)
        IN  /\ self.opening_balance = st.opening_balance
            /\ self.closing_balance = st.closing_balance
            /\ self.transaction_count = st.transaction_count
            /\ self.computed_vs_stated_diff = st.computed_vs_stated_diff
            /\ self.balance_mismatch = (IF st.any_mismatch THEN Num(1) ELSE Num(0))

\* C4: compare_text and compare_numbers score every page number from 1 to
\* the greatest page_number present in either source: no page that exists is
\* left out of the per-page ratios or of the numeric totals.
C4_EveryPresentPageScored ==
    LET top == MaxPageNumber(self.pages_ai, self.pages_pdf)
        totals == NumbersLoop(self.pages_ai, self.pages_pdf, top)
    IN  /\ "compare_text" \in done => top <= Len(self.page_similarities)
        /\ "compare_numbers" \in done =>
               /\ self.ai_numeric_match_ratio = NumericMatchRatio(totals)
               /\ self.ai_numeric_count_diff = Num(NumericCountDiff(totals))

\* C5: tokens of the two sides that denote the same value count as common
\* in compare_numbers however they are written.
C5_TokensComparedByValue ==
    "compare_numbers" \in done =>
        LET k == TotalPages(self.pages_ai, self.pages_pdf)
            totals == NumbersLoop(self.pages_ai, self.pages_pdf, k)
        IN  self.ai_numeric_match_ratio =
                NumericMatchRatio([totals EXCEPT !.total_common_count =
                    CommonByValue(self.pages_ai, self.pages_pdf, k)])

\* C6: for a scored page number present in only one source, with a page_text
\* on that side, the ratio is 0 when that text has a token and 1 when it has
\* none.
C6_MissingSideIsEmpty ==
    "compare_text" \in done =>
        \A k \in 1..Len(self.page_similarities) :
            LET in_ai == HasPage(self.pages_ai, k)
                in_pdf == HasPage(self.pages_pdf, k)
                present == IF in_ai THEN PageText(self.pages_ai, k)
                           ELSE PageText(self.pages_pdf, k)
            IN  (in_ai # in_pdf /\ present # Absent) =>
                    self.page_similarities[k] =
                        (IF WordsOf[present] = <<>> THEN Rat(1, 1) ELSE Rat(0, 1))

BothSidesEmpty == self.pages_ai = <<>> /\ self.pages_pdf = <<>>

\* C7 as stated: with no AI page and no PDF page, compare_text reports an
\* overall similarity of 1.0.
C7_EmptyInputSimilarityOne ==
    ("compare_text" \in done /\ BothSidesEmpty) => self.ai_word_similarity = Rat(1, 1)

\* C7 as amended: with no AI page and no PDF page, compare_text reports an
\* overall similarity of 0.
C7_EmptyInputSimilarityZero ==
    ("compare_text" \in done /\ BothSidesEmpty) => self.ai_word_similarity = Rat(0, 1)

C7_Witness == "compare_text" \in done /\ BothSidesEmpty

\* No page on either side: the AI root has an empty (or no) page list
ZeroPages == BalancePages(self.ai_data) = List(<<>>) /\ self.pages_pdf = <<>>

\* C8: with zero pages on both sides the three analyses raise nothing and
\* yield ai_numeric_match_ratio = 0, ai_numeric_count_diff = 0,
\* opening_balance = closing_balance = None, transaction_count = 0 and
\* balance_mismatch = 0.
C8_DegenerateInput ==
    ZeroPages =>
        /\ pc # "raised"
        /\ "compare_numbers" \in done =>
               /\ self.ai_numeric_match_ratio = Rat(0, 1)
               /\ self.ai_numeric_count_diff = Num(0)
        /\ "verify_balance" \in done =>
               /\ self.opening_balance = NoneV
               /\ self.closing_balance = NoneV
               /\ self.transaction_count = Num(0)
               /\ self.balance_mismatch = Num(0)

C8_Witness == ZeroPages /\ done = AllDone /\ pc = "gathered"

\* C9 as stated: a malformed AI root aborts the pass: no analysis completes
\* and no feature record is produced.
C9_MalformedRootAborts ==
    MalformedInput => done = {} /\ record = NoneV

\* C9 as amended: a malformed AI root is replaced by an empty page list; an
\* unparseable string or a root that is not a dict becomes the empty dict and
\* nothing raises; with a 'pages' value that is not a list only the balance
\* pass can raise, after compare_text and compare_numbers have completed, and
\* exactly when that value is non-empty.
C9_MalformedRootTreatedAsEmpty ==
    MalformedInput =>
        /\ self.pages_ai = <<>>
        /\ ~RootIsDict => self.ai_data = EmptyDict /\ pc # "raised"
        /\ pc = "raised" =>
               /\ done = {"compare_text", "compare_numbers"}
               /\ Truthy(self.ai_data.pages)
               /\ exc \in {"AttributeError", "TypeError"}
        /\ (RootIsDict /\ ~Truthy(self.ai_data.pages)) => pc # "raised"
        /\ (RootIsDict /\ Truthy(self.ai_data.pages)) => "verify_balance" \notin done

C9_Witness == MalformedInput /\ ~RootIsDict /\ done = AllDone /\ pc = "gathered"

\* No page of the AI list has a page_text that is null
NoNullText == \A i \in 1..Len(self.pages_ai) : self.pages_ai[i].page_text # Null

\* C10: for a well-formed root, whatever balances, amounts or fields the
\* pages lack or carry as non-numeric values, no analysis raises.
C10_PageIrregularitiesNeverRaise ==
    (WellFormedRoot /\ NoNullText) => pc # "raised"

\* The sum of the numeric amounts of a transaction list, in hundredths
RECURSIVE DecimalTxSum(_)
DecimalTxSum(txs) ==
    IF txs = <<>> THEN 0
    ELSE LET amount == Get(Head(txs).amount, NumStr(0))
         IN  (IF amount.t \in {"num", "numstr"} THEN amount.v ELSE 0)
             + DecimalTxSum(Tail(txs))

\* Opening plus transaction sum of the processed page at index k, in
\* hundredths: the opening is the stated one, or the computed closing of the
\* processed page before it when it is carried forward
RECURSIVE DecimalClosing(_)
DecimalClosing(k) ==
    LET before == {j \in Processed : j < k}
        opening == IF Trace[k].kind = "carry_forward"
                   THEN DecimalClosing(CHOOSE j \in before : \A o \in before : o <= j)
                   ELSE self.pages_ai[k].opening_balance.v
    IN  opening + DecimalTxSum(self.pages_ai[k].transactions.xs)

\* The processed page at index k states a numeric closing that differs from
\* opening plus transaction sum by more than the tolerance
DecimalMismatch(k) ==
    /\ k \in Processed
    /\ Trace[k].stated_close # NoneV
    /\ Abs(DecimalClosing(k) - self.pages_ai[k].closing_balance.v) > Tolerance

\* C11: after the balance pass balance_mismatch is set if and only if some
\* processed page has a numeric stated closing whose distance from opening
\* plus transaction sum is strictly greater than the tolerance 0.01; a
\* distance equal to the tolerance does not set it.
C11_MismatchIffDifferenceExceedsTolerance ==
    ("verify_balance" \in done /\ WellFormedRoot) =>
        (self.balance_mismatch = Num(1)
            <=> \E k \in 1..Len(self.pages_ai) : DecimalMismatch(k))

\* The token totals of the two sides over the page numbers compare_numbers
\* visits
Totals ==
    NumbersLoop(self.pages_ai, self.pages_pdf, TotalPages(self.pages_ai, self.pages_pdf))

\* C12: after compare_numbers, ai_numeric_match_ratio is 100 * total_common /
\* max(total_ai_count, total_source_count) over the totals of the visited
\* pages, 0 when both totals are 0; total_common exceeds neither total and
\* the ratio lies in [0, 100].
C12_MatchRatioFormula ==
    "compare_numbers" \in done =>
        LET top == Max(Totals.total_ai_numbers, Totals.total_pdf_numbers)
            ratio == self.ai_numeric_match_ratio
        IN  /\ Totals.total_common_count <= Totals.total_ai_numbers
            /\ Totals.total_common_count <= Totals.total_pdf_numbers
            /\ IF top = 0 THEN ratio = Rat(0, 1)
               ELSE ratio.n * top = 100 * Totals.total_common_count * ratio.d
            /\ RatLeq(Rat(0, 1), ratio)
            /\ RatLeq(ratio, Rat(100, 1))

\* compare_numbers has run on sides with different totals that share a token
C12_Witness ==
    /\ "compare_numbers" \in done
    /\ Totals.total_common_count > 0
    /\ Totals.total_ai_numbers > Totals.total_pdf_numbers
    /\ self.ai_numeric_match_ratio \notin {Rat(0, 1), Rat(100, 1)}

\* The sum over the page numbers 1..k of the per-page differences of the
\* token counts
RECURSIVE PerPageCountDiffs(_)
PerPageCountDiffs(k) ==
    IF k = 0 THEN 0
    ELSE LET page == PageNumbers(self.pages_ai, self.pages_pdf, k)
         IN  PerPageCountDiffs(k - 1) + Abs(page.ai - page.pdf)

\* C13: after compare_numbers, ai_numeric_count_diff is
\* |total_ai_count - total_source_count| taken once on the document totals:
\* a non-negative integer, at most the sum of the per-page differences,
\* which cancel when their directions are opposite.
C13_CountDiffOnTotals ==
    "compare_numbers" \in done =>
        LET diff == self.ai_numeric_count_diff.v
        IN  /\ diff >= 0
            /\ \/ diff = Totals.total_ai_numbers - Totals.total_pdf_numbers
               \/ diff = Totals.total_pdf_numbers - Totals.total_ai_numbers
            /\ diff <= PerPageCountDiffs(TotalPages(self.pages_ai, self.pages_pdf))

\* compare_numbers has run on pages whose count differences cancel: the PDF
\* side has more tokens on one page, the AI side on another
C13_Witness ==
    /\ "compare_numbers" \in done
    /\ self.ai_numeric_count_diff.v
           < PerPageCountDiffs(TotalPages(self.pages_ai, self.pages_pdf))
    /\ \E k \in 1..Len(self.pages_ai) :
           LET page == PageNumbers(self.pages_ai, self.pages_pdf, k)
           IN  page.pdf > page.ai

\* C14: swapping the AI page texts with the PDF page texts leaves
\* ai_numeric_match_ratio and ai_numeric_count_diff unchanged.
C14_CompareNumbersSymmetric ==
    "compare_numbers" \in done =>
        LET swapped == NumbersLoop(self.pages_pdf, self.pages_ai,
                                   TotalPages(self.pages_pdf, self.pages_ai))
        IN  /\ swapped.err = "none"
            /\ self.ai_numeric_match_ratio = NumericMatchRatio(swapped)
            /\ self.ai_numeric_count_diff = Num(NumericCountDiff(swapped))

\* compare_numbers has run on two sides that differ in their token totals
\* and share a token
C14_Witness ==
    /\ "compare_numbers" \in done
    /\ self.pages_ai # <<>> /\ self.pages_pdf # <<>>
    /\ Totals.total_ai_numbers # Totals.total_pdf_numbers
    /\ Totals.total_common_count > 0

\* C15: every per-page ratio compare_text stores, and the overall
\* ai_word_similarity, lies in [0, 1].
C15_SimilarityInUnitInterval ==
    /\ \A k \in 1..Len(self.page_similarities) :
           /\ RatLeq(Rat(0, 1), self.page_similarities[k])
           /\ RatLeq(self.page_similarities[k], Rat(1, 1))
    /\ "compare_text" \in done =>
           /\ RatLeq(Rat(0, 1), self.ai_word_similarity)
           /\ RatLeq(self.ai_word_similarity, Rat(1, 1))

\* compare_text has stored a ratio of 1 for one page and a ratio strictly
\* between 0 and 1 for another
C15_Witness ==
    /\ "compare_text" \in done
    /\ \E k \in 1..Len(self.page_similarities) : self.page_similarities[k] = Rat(1, 1)
    /\ \E k \in 1..Len(self.page_similarities) :
           self.page_similarities[k] \notin {Rat(0, 1), Rat(1, 1)}

\* The normalized tokens of a text: each whitespace-separated piece without
\* its punctuation and in lower case, empty pieces dropped
NormalizedTokens(cs) ==
    LET pieces == Split(cs)
        clean(w) == LET kept == SelectSeq(w, IsWord)
                    IN  [i \in 1..Len(kept) |-> LowerChar(kept[i])]
    IN  SelectSeq([i \in 1..Len(pieces) |-> clean(pieces[i])], LAMBDA w : w # <<>>)

\* NormalizedTokens, tabulated over the texts
NormalizedOf == [x \in AllTexts \ {Absent} |-> NormalizedTokens(x.cs)]

\* The page numbers compare_text has scored for which both sources hold a
\* page with a text
ScoredOnBothSides ==
    {k \in 1..Len(self.page_similarities) :
        /\ PageText(self.pages_ai, k) # Absent
        /\ PageText(self.pages_pdf, k) # Absent}

SharedTokens(a, b) ==
    {a[i] : i \in 1..Len(a)} \cap {b[i] : i \in 1..Len(b)}

\* C16: the ratio of a page is 1 when the normalized token sequences of its
\* two texts are identical, and 0 when both are non-empty and share no
\* token.
C16_IdenticalIsOneDisjointIsZero ==
    "compare_text" \in done =>
        \A k \in ScoredOnBothSides :
            LET a == NormalizedOf[PageText(self.pages_ai, k)]
                b == NormalizedOf[PageText(self.pages_pdf, k)]
            IN  /\ a = b => self.page_similarities[k] = Rat(1, 1)
                /\ (a # <<>> /\ b # <<>> /\ SharedTokens(a, b) = {}) =>
                       self.page_similarities[k] = Rat(0, 1)

\* compare_text has scored a page whose two texts differ but normalize to
\* the same non-empty token sequence
C16_Witness ==
    /\ "compare_text" \in done
    /\ \E k \in ScoredOnBothSides :
           /\ PageText(self.pages_ai, k) # PageText(self.pages_pdf, k)
           /\ NormalizedOf[PageText(self.pages_ai, k)] # <<>>
           /\ NormalizedOf[PageText(self.pages_ai, k)]
                  = NormalizedOf[PageText(self.pages_pdf, k)]

\* C17: the overall similarity is the arithmetic mean of the per-page
\* ratios over the page numbers 1..max(number of AI pages, number of PDF
\* pages), each counted once, pages with a missing or empty side included.
C17_OverallIsMeanOfPages ==
    ("compare_text" \in done /\ self.page_similarities # <<>>) =>
        /\ Len(self.page_similarities) = TotalPages(self.pages_ai, self.pages_pdf)
        /\ RatNorm(self.ai_word_similarity.n * Len(self.page_similarities),
                   self.ai_word_similarity.d)
               = RatSum(self.page_similarities)

\* compare_text has scored two pages with different ratios, one of them
\* present on the AI side only and sharing no token with the default
C17_Witness ==
    /\ "compare_text" \in done
    /\ Len(self.page_similarities) = 2
    /\ self.page_similarities[1] # Rat(0, 1)
    /\ self.page_similarities[2] = Rat(0, 1)
    /\ HasPage(self.pages_ai, 2) /\ ~HasPage(self.pages_pdf, 2)

\* The tokens a call returned, as a multiset: the same tokens as often
SameMultiset(a, b) ==
    /\ Len(a) = Len(b)
    /\ \A i \in 1..Len(a) : Count(a, a[i]) = Count(b, a[i])

\* A token is a run of digits, or two runs of digits around one decimal
\* point, with nothing before it
UnsignedToken(token) ==
    /\ token # <<>>
    /\ token[1] \in Digits
    /\ token[Len(token)] \in Digits
    /\ \A i \in 1..Len(token) : token[i] \in Digits \cup {"."}
    /\ Cardinality({i \in 1..Len(token) : token[i] = "."}) <= 1

\* C18: extracting again from the tokens of a result joined by blanks
\* returns the same multiset of tokens, and no token extract_numbers
\* returns carries a leading sign.
C18_ExtractionRoundTrip ==
    /\ \A c \in 1..Len(calls) : \A i \in 1..Len(calls[c].numbers) :
           UnsignedToken(calls[c].numbers[i])
    /\ Len(calls) = 2 => SameMultiset(calls[1].numbers, calls[2].numbers)

\* The round trip has been made on a text with a signed decimal among at
\* least two tokens
C18_Witness ==
    /\ pc = "reextracted"
    /\ Len(calls[1].numbers) >= 2
    /\ \E i \in 1..(Len(calls[1].text.cs) - 1) :
           calls[1].text.cs[i] \in {"+", "-"} /\ calls[1].text.cs[i + 1] \in Digits
    /\ \E i \in 1..Len(calls[1].numbers) :
           \E j \in 1..Len(calls[1].numbers[i]) : calls[1].numbers[i][j] = "."

\* The verifier as __init__ leaves it for the inputs of the run
Fresh == NewVerifier(ai_output, pdf_handler)

\* Every feature an analysis has set is the value that analysis computes from
\* the inputs alone, and the features of an analysis that has not completed
\* are as __init__ left them
FeaturesDependOnInputsOnly ==
    LET total_pages == TotalPages(Fresh.pages_ai, Fresh.pages_pdf)
        text_loop == TextLoop(Fresh.pages_ai, Fresh.pages_pdf, total_pages)
        totals == NumbersLoop(Fresh.pages_ai, Fresh.pages_pdf, total_pages)
        pages == BalancePages(Fresh.ai_data)
        st == IF NoPages(pages) THEN BalanceInit ELSE BalanceFinal(pages.xs, Tolerance)
    IN  /\ IF "compare_text" \in done
           THEN /\ self.page_similarities = text_loop.sims
                /\ self.ai_word_similarity = OverallSimilarity(text_loop.sims)
           ELSE self.ai_word_similarity = NoneV
        /\ IF "compare_numbers" \in done
           THEN /\ self.ai_numeric_match_ratio = NumericMatchRatio(totals)
                /\ self.ai_numeric_count_diff = Num(NumericCountDiff(totals))
           ELSE /\ self.ai_numeric_match_ratio = NoneV
                /\ self.ai_numeric_count_diff = NoneV
        /\ IF "verify_balance" \in done
           THEN /\ self.opening_balance = st.opening_balance
                /\ self.closing_balance = st.closing_balance
                /\ self.transaction_count = st.transaction_count
                /\ self.computed_vs_stated_diff = st.computed_vs_stated_diff
                /\ self.balance_mismatch = (IF st.any_mismatch THEN Num(1) ELSE Num(0))
           ELSE pc # "raised" =>
                /\ self.opening_balance = NoneV
                /\ self.closing_balance = NoneV
                /\ self.transaction_count = NoneV
                /\ self.computed_vs_stated_diff = NoneV
                /\ self.balance_mismatch = NoneV

\* A step leaves the inputs and the page records of the verifier as they are
InputsKept ==
    /\ ai_output' = ai_output
    /\ pdf_handler' = pdf_handler
    /\ self'.ai_data = self.ai_data
    /\ self'.pages_ai = self.pages_ai
    /\ self'.pages_pdf = self.pages_pdf

\* C19: whatever the order in which the three analyses are called, and however
\* often, each feature is the value its analysis computes from the AI and PDF
\* inputs alone, an analysis writes no feature of another analysis, and no
\* call modifies the inputs or the page records.
C19_DeterministicInAnyOrder ==
    /\ [](FeaturesDependOnInputsOnly /\ self.pages_ai = Fresh.pages_ai
                                     /\ self.pages_pdf = Fresh.pages_pdf
                                     /\ self.ai_data = Fresh.ai_data)
    /\ [][InputsKept]_vars

\* The balance pass and compare_numbers have run before compare_text, and
\* the balance pass has found a mismatch
C19_Witness ==
    /\ done = {"verify_balance", "compare_numbers"}
    /\ self.balance_mismatch = Num(1)
    /\ self.ai_numeric_match_ratio # NoneV
    /\ self.ai_word_similarity = NoneV

\* The features of the record that are None
UnsetFeatures(r) ==
    {f \in {"ai_word_similarity", "ai_numeric_match_ratio", "ai_numeric_count_diff",
            "transaction_count", "computed_vs_stated_diff", "balance_mismatch"} :
        r[f] = NoneV}

\* C20: a record gathered at any point of the call sequence is complete
\* exactly when the three analyses have completed; otherwise it is
\* distinguishable as incomplete: the features of each analysis that has not
\* completed are None in it, and those of each completed analysis are not.
C20_PartialRecordDistinguishable ==
    pc = "gathered" =>
        /\ UnsetFeatures(record) = {} <=> done = AllDone
        /\ "ai_word_similarity" \in UnsetFeatures(record) <=> "compare_text" \notin done
        /\ \A f \in {"ai_numeric_match_ratio", "ai_numeric_count_diff"} :
               f \in UnsetFeatures(record) <=> "compare_numbers" \notin done
        /\ \A f \in {"transaction_count", "computed_vs_stated_diff", "balance_mismatch"} :
               f \in UnsetFeatures(record) <=> "verify_balance" \notin done

\* A record has been gathered after compare_text and the balance pass but
\* before compare_numbers
C20_Witness ==
    /\ pc = "gathered"
    /\ done = {"compare_text", "verify_balance"}
    /\ record.opening_balance # NoneV
    /\ record.ai_numeric_match_ratio = NoneV

\* The indices of the pages processed (not skipped) in a trace of the loop
ProcessedIn(tr) == {k \in 1..Len(tr) : tr[k].kind \in {"explicit", "carry_forward"}}

\* The most recent page processed before the page at index k (0: none)
PreviousProcessed(tr, k) ==
    LET before == {j \in ProcessedIn(tr) : j < k}
    IN  IF before = {} THEN 0 ELSE CHOOSE j \in before : \A o \in before : o <= j

\* The page has no opening balance: the key is missing or holds 'unknown'
OpeningAbsent(page) == page.opening_balance \in {Absent, Unknown}

\* The opening used for the page at index k plus the sum of its transactions
ComputedClosing(tr, k) ==
    FloatAdd(tr[k].ob_val, TxSum(self.pages_ai[k].transactions.xs).sum)

\* C21: a processed page without an opening balance uses as its opening the
\* computed closing (opening plus transaction sum) of the most recent page
\* processed before it, whatever that page's stated closing and however many
\* skipped pages lie in between; when it is the last page of the list that
\* value is the stored opening_balance.
C21_CarriedOpeningIsPreviousComputedClosing ==
    "verify_balance" \in done =>
        LET tr == Trace
        IN  \A k \in ProcessedIn(tr) :
                OpeningAbsent(self.pages_ai[k]) =>
                    LET j == PreviousProcessed(tr, k)
                    IN  /\ j # 0
                        /\ tr[k].ob_val = ComputedClosing(tr, j)
                        /\ k = Len(tr) => self.opening_balance = ComputedClosing(tr, j)

\* A page without opening is processed after a skipped page, and the page
\* processed before that states a closing other than its computed one
C21_Witness ==
    /\ "verify_balance" \in done
    /\ Len(self.pages_ai) = 3
    /\ LET tr == Trace
       IN  /\ ProcessedIn(tr) = {1, 3}
           /\ OpeningAbsent(self.pages_ai[3])
           /\ tr[1].stated_close # NoneV
           /\ tr[1].stated_close # ComputedClosing(tr, 1)
           /\ self.opening_balance = ComputedClosing(tr, 1)

\* The page states its opening balance as a number or a numeric string
OpeningNumeric(page) == page.opening_balance.t \in {"num", "numstr"}

\* The loop state before the iteration on the page at index k
StateBefore(tr, k) == IF k = 1 THEN BalanceInit ELSE tr[k - 1]

\* C22: a processed page that states a numeric opening uses that value as
\* its opening whatever previous_closing is, and is treated as it would be
\* with no page before it: same computed closing and same diff, and the
\* mismatch flag after it is the flag before it or the page's own closing
\* mismatch, so that an opening different from the previous computed closing
\* flags nothing.
C22_ExplicitOpeningNeverOverridden ==
    "verify_balance" \in done =>
        LET tr == Trace
        IN  \A k \in ProcessedIn(tr) :
                OpeningNumeric(self.pages_ai[k]) =>
                    LET alone == BalanceStep(BalanceInit, self.pages_ai[k], k, Len(tr),
                                             Tolerance)
                    IN  /\ tr[k].kind = "explicit"
                        /\ tr[k].ob_val = Float(self.pages_ai[k].opening_balance).v
                        /\ tr[k].expected_closing = alone.expected_closing
                        /\ tr[k].diff_value = alone.diff_value
                        /\ tr[k].any_mismatch =
                               (StateBefore(tr, k).any_mismatch \/ alone.any_mismatch)

\* A page states an opening other than the computed closing of the page
\* processed before it, and no mismatch is flagged
C22_Witness ==
    /\ "verify_balance" \in done
    /\ self.balance_mismatch = Num(0)
    /\ LET tr == Trace
       IN  \E k \in ProcessedIn(tr) :
               /\ OpeningNumeric(self.pages_ai[k])
               /\ PreviousProcessed(tr, k) # 0
               /\ tr[k].ob_val # ComputedClosing(tr, PreviousProcessed(tr, k))

\* The balance pass has been called: it returned or raised
BalancePassCalled ==
    \/ "verify_balance" \in done
    \/ pc = "raised" /\ done = {"compare_text", "compare_numbers"}

\* The page has no list of transactions
TransactionsInvalid(page) ==
    page.transactions = Absent \/ page.transactions.t # "list"

\* C23: a page whose transactions are absent or not a list, or whose
\* opening is absent while no previous closing exists, leaves
\* previous_closing, the running transaction total and the mismatch flag as
\* they were and raises no error.
C23_SkippedPageLeavesRunningState ==
    BalancePassCalled =>
        LET tr == Trace
        IN  \A k \in 1..Len(tr) :
                LET before == StateBefore(tr, k)
                    page == self.pages_ai[k]
                IN  (/\ before.err = "none"
                     /\ \/ TransactionsInvalid(page)
                        \/ OpeningAbsent(page) /\ before.previous_closing = NoneV)
                    => /\ tr[k].err = "none"
                       /\ tr[k].previous_closing = before.previous_closing
                       /\ tr[k].total_transactions = before.total_transactions
                       /\ tr[k].any_mismatch = before.any_mismatch

\* A first page without opening, a processed page that sets the mismatch
\* flag, and a third page without transactions
C23_Witness ==
    /\ "verify_balance" \in done
    /\ Len(self.pages_ai) = 3
    /\ OpeningAbsent(self.pages_ai[1]) /\ ~TransactionsInvalid(self.pages_ai[1])
    /\ TransactionsInvalid(self.pages_ai[3])
    /\ LET tr == Trace
       IN  /\ ProcessedIn(tr) = {2}
           /\ tr[3].previous_closing # NoneV
           /\ tr[3].total_transactions > 0
           /\ tr[3].any_mismatch
    /\ self.balance_mismatch = Num(1)

\* The page states no closing balance that float() accepts
ClosingNotNumeric(page) == page.closing_balance.t \notin {"num", "numstr"}

\* C24: for a processed page whose stated closing is absent or not numeric
\* the diff is 0 and the mismatch flag is not set by it, previous_closing
\* becomes its computed closing, and if it is the last processed page the
\* stored closing_balance is its computed closing.
C24_NoStatedClosingUsesComputed ==
    "verify_balance" \in done =>
        LET tr == Trace
        IN  \A k \in ProcessedIn(tr) :
                ClosingNotNumeric(self.pages_ai[k]) =>
                    /\ tr[k].diff_value = FloatZero
                    /\ tr[k].any_mismatch = StateBefore(tr, k).any_mismatch
                    /\ tr[k].previous_closing = ComputedClosing(tr, k)
                    /\ (\A o \in ProcessedIn(tr) : o <= k)
                          => self.closing_balance = ComputedClosing(tr, k)

\* The amount of the transaction is there and is not a number or a numeric
\* string
AmountUnparseable(tx) == tx.amount # Absent /\ tx.amount.t \notin {"num", "numstr"}

\* The sum of the amounts that are numbers, the others counting 0
RECURSIVE ParseableSum(_)
ParseableSum(txs) ==
    IF txs = <<>> THEN FloatZero
    ELSE LET tx == txs[Len(txs)]
             rest == ParseableSum(SubSeq(txs, 1, Len(txs) - 1))
         IN  IF tx.amount = Absent \/ AmountUnparseable(tx) THEN rest
             ELSE FloatAdd(rest, Float(tx.amount).v)

\* Nothing but its amounts can keep the page from being processed
OtherwiseProcessed(page, before) ==
    /\ before.err = "none"
    /\ ~TransactionsInvalid(page)
    /\ OpeningNumeric(page) \/ (OpeningAbsent(page) /\ before.previous_closing # NoneV)
    /\ page.closing_balance # Null

\* C25: a transaction whose amount cannot be parsed as a number adds 0 to
\* the sum of its page; the page is processed all the same, the pass does
\* not raise, and the transaction is counted in the running total and, on
\* the last page of the list, in transaction_count.
C25_UnparseableAmountCountsZero ==
    BalancePassCalled =>
        LET tr == Trace
        IN  \A k \in 1..Len(tr) :
                LET page == self.pages_ai[k]
                    before == StateBefore(tr, k)
                IN  (/\ OtherwiseProcessed(page, before)
                     /\ \E i \in 1..Len(page.transactions.xs) :
                            AmountUnparseable(page.transactions.xs[i]))
                    => /\ tr[k].kind \in {"explicit", "carry_forward"}
                       /\ tr[k].expected_closing =
                              FloatAdd(tr[k].ob_val, ParseableSum(page.transactions.xs))
                       /\ tr[k].total_transactions =
                              before.total_transactions + Len(page.transactions.xs)
                       /\ k = Len(tr) =>
                              self.transaction_count = Num(tr[k].total_transactions)

\* A word of a text without the sign before it
Unsigned(word) == IF word[1] \in {"+", "-"} THEN Tail(word) ELSE word

\* The numbers written in a text of signed numbers, signs left out
WrittenNumbers(cs) == LET words == Split(cs) IN [i \in 1..Len(words) |-> Unsigned(words[i])]

\* The sum over the values of a set of min(count in a, count in b)
RECURSIVE MinCountSum(_, _, _)
MinCountSum(values, a, b) ==
    IF values = {} THEN 0
    ELSE LET v == CHOOSE x \in values : TRUE
         IN  Min(Count(a, v), Count(b, v)) + MinCountSum(values \ {v}, a, b)

\* C26: the common count of a page is the sum over the distinct numbers of
\* the page of min(count on the AI side, count on the PDF side), numbers
\* taken without sign; exchanging numbers of a side and changing the sign
\* of a number leave it as it was.
C26_CommonCountIsMultisetIntersection ==
    /\ \A c \in 1..Len(calls) :
           LET a == WrittenNumbers(calls[c].text.ai_text.cs)
               b == WrittenNumbers(calls[c].text.pdf_text.cs)
           IN  calls[c].page_common_count =
                   MinCountSum({a[i] : i \in 1..Len(a)} \cup {b[i] : i \in 1..Len(b)}, a, b)
    /\ \A c \in 1..Len(calls) : calls[c].page_common_count = calls[1].page_common_count

\* A page with the same number twice on one side and once on the other has
\* been compared again after an exchange and after a change of sign
C26_Witness ==
    /\ Len(calls) = 3
    /\ calls[1].page_common_count = 1
    /\ Len(calls[1].ai_numbers) = 2 /\ Len(calls[1].pdf_numbers) = 2
    /\ calls[1].ai_numbers[1] = calls[1].ai_numbers[2]
    /\ calls[1].pdf_numbers[1] # calls[1].pdf_numbers[2]
    /\ calls[2].pdf_numbers = <<calls[1].pdf_numbers[2], calls[1].pdf_numbers[1]>>
    /\ calls[3].text.ai_text # calls[2].text.ai_text

\* The pages of a list without those whose page_number an earlier page of
\* the list has
RECURSIVE FirstOccurrences(_)
FirstOccurrences(pages) ==
    IF pages = <<>> THEN <<>>
    ELSE LET n == Len(pages)
             front == FirstOccurrences(SubSeq(pages, 1, n - 1))
         IN  IF \E i \in 1..(n - 1) : pages[i].page_number = pages[n].page_number
             THEN front ELSE Append(front, pages[n])

\* C27: when a source lists a page_number more than once the outputs are
\* those of the source with only the first page of each page_number: the
\* same number of scored pages, similarity, numeric ratio and count diff,
\* balance fields and transaction_count.
C27_DuplicatePagesIgnored ==
    (pc = "ready" /\ done = AllDone) =>
        LET pages_ai == FirstOccurrences(self.pages_ai)
            pages_pdf == FirstOccurrences(self.pages_pdf)
            total_pages == TotalPages(pages_ai, pages_pdf)
            text_loop == TextLoop(pages_ai, pages_pdf, total_pages)
            totals == NumbersLoop(pages_ai, pages_pdf, total_pages)
            st == BalanceFinal(pages_ai, Tolerance)
        IN  (text_loop.err = "none" /\ totals.err = "none" /\ st.err = "none") =>
                /\ Len(self.page_similarities) = total_pages
                /\ self.ai_word_similarity = OverallSimilarity(text_loop.sims)
                /\ self.ai_numeric_match_ratio = NumericMatchRatio(totals)
                /\ self.ai_numeric_count_diff = Num(NumericCountDiff(totals))
                /\ self.opening_balance = st.opening_balance
                /\ self.closing_balance = st.closing_balance
                /\ self.transaction_count = st.transaction_count
                /\ self.computed_vs_stated_diff = st.computed_vs_stated_diff
                /\ self.balance_mismatch = IF st.any_mismatch THEN Num(1) ELSE Num(0)

\* The similarities of the page numbers 1..N as the loop of compare_text
\* computes them in that order
SequentialSimilarities ==
    [k \in 1..TotalPages(self.pages_ai, self.pages_pdf) |->
        SimilarityFloat(PageSimilarity(self.pages_ai, self.pages_pdf, k).ratio)]

\* The totals of the loop of compare_numbers over 1..N in that order
SequentialTotals ==
    NumbersLoop(self.pages_ai, self.pages_pdf,
                TotalPages(self.pages_ai, self.pages_pdf))

\* Every page scored so far has the similarity the sequential pass gives it
PerPageResultsAsSequential ==
    \A i \in 1..Len(self.page_similarities) :
        self.page_similarities[i].similarity =
            SequentialSimilarities[self.page_similarities[i].page_num]

\* The totals, the match ratio and the count diff are those of the
\* sequential pass
NumericAggregatesAsSequential ==
    /\ Len(calls) = TotalPages(self.pages_ai, self.pages_pdf) =>
           /\ RunningTotals.total_common_count = SequentialTotals.total_common_count
           /\ RunningTotals.total_ai_numbers = SequentialTotals.total_ai_numbers
           /\ RunningTotals.total_pdf_numbers = SequentialTotals.total_pdf_numbers
    /\ "compare_numbers" \in done =>
           /\ self.ai_numeric_match_ratio = NumericMatchRatio(SequentialTotals)
           /\ self.ai_numeric_count_diff = Num(NumericCountDiff(SequentialTotals))

\* The pages were scored in the order 1..N
ScoredInPageOrder ==
    \A i \in 1..Len(self.page_similarities) : self.page_similarities[i].page_num = i

RoundingSlack == Flt(FALSE, 0, 2^7)

ResponseParsed == ai_output # NoneV /\ ai_output.loads.t # "error"

\* The run constructed the StatementVerifier
ReachedVerifier == self # NoneV

\* A row of this run is in statement_features
SavedThisRun == \E i \in DOMAIN db.rows : db.rows[i].scanned_at = "now"

\* The response has a first page and its classification is 'bank_statement'
FirstPageIsBankStatement ==
    LET gpt_data == ai_output.loads
    IN  /\ gpt_data.t = "dict"
        /\ gpt_data.pages # Absent
        /\ gpt_data.pages.t = "list"
        /\ gpt_data.pages.xs # <<>>
        /\ gpt_data.pages.xs[1].classification = Str("bank_statement")

\* No page of the response has 'Obvious Tampering' equal to 1
NoPageTampered ==
    LET gpt_data == ai_output.loads
    IN  gpt_data.t = "dict" /\ gpt_data.pages # Absent /\ gpt_data.pages.t = "list"
        => \A i \in DOMAIN gpt_data.pages.xs :
               gpt_data.pages.xs[i].obvious_tampering # Num(100)

\* C29: whenever an AI response was obtained and parsed, the run reaches the
\* StatementVerifier and the database save only if the first page is
\* classified 'bank_statement' and no page has 'Obvious Tampering' equal to 1;
\* in every other case, a response with an empty pages list included, the
\* verifier is never constructed and no row is saved.
C29_GateGuardsVerification ==
    ResponseParsed /\ (ReachedVerifier \/ SavedThisRun)
        => FirstPageIsBankStatement /\ NoPageTampered

\* The row with this id was inserted for the document of this run
RowOfThisRun(statement_id) ==
    \E i \in DOMAIN db.rows :
        db.rows[i].id = statement_id /\ db.rows[i].scanned_at = "now"

\* process_locally returned True
ParseSuccess == pc = "saved"

\* C30: every label update_label_in_db writes goes to the row inserted for the
\* document of this run (so, when process_locally returned False or the
\* insert failed, no row of an earlier document is predicted or relabelled),
\* and process_locally returns True only when the row was inserted.
C30_LabelGoesToThisRunsRow ==
    /\ \A k \in DOMAIN calls : RowOfThisRun(calls[k].statement_id)
    /\ ParseSuccess => SavedThisRun
============================================================================
